---- MODULE Spec2Model ----
(***************************************************************************)
(* The JSON-RPC connection of the Agent-Client Protocol runtime            *)
(* (src/src/acp/connection.py, the same class in src/src/acp/core.py) and  *)
(* the method routers of src/src/acp/core.py, as a state machine.          *)
(*                                                                         *)
(* One connection is modelled.  Its peer is the environment: it supplies   *)
(* the lines the receive loop reads.  The tasks of the event loop (the     *)
(* receive loop, one handler task per inbound request, the callers of      *)
(* send_request / send_notification, close) are interleaved at their       *)
(* await points; code between two awaits is one step.                      *)
(***************************************************************************)
EXTENDS Integers, Sequences, FiniteSets, TLC

(***************************************************************************)
(* JSON values.  A key that is missing from an object is Absent; the JSON  *)
(* value null (Python None) is Null.  Ids are integers: NoId is a missing  *)
(* "id" key, NullId is "id": null.                                         *)
(***************************************************************************)
Absent == "<absent>"
Null == "<null>"
EmptyObj == "{}"
NoId == 0 - 1
NullId == 0 - 2
NoCode == 0 - 1     \* a missing "code" member of an error object

\* A method name is a sequence of characters; only the leading underscore of
\* a name is ever inspected, so the rest of a name is kept as one token.
MAbsent == <<"<absent>">>       \* no "method" key
MNull == <<"<null>">>           \* "method": null
MNumber == <<"<number>">>       \* "method": 5 (a JSON value that is no string)
IsStr(m) == m \notin {MAbsent, MNull, MNumber}

\* message.get("method"): a missing key and an explicit null both read as None
GetMethod(m) == IF m = MAbsent THEN MNull ELSE m

\* str.startswith("_") and method[1:]
StartsWithUnderscore(m) == IsStr(m) /\ Len(m) > 0 /\ m[1] = "_"

\* A faulty strip that removes every leading underscore (lstrip("_")).
RECURSIVE StripFirst_lstrip(_)
StripFirst_lstrip(m) ==
    IF m # <<>> /\ m[1] = "_" THEN StripFirst_lstrip(SubSeq(m, 2, Len(m))) ELSE m

StripFirst(m) == SubSeq(m, 2, Len(m))

(***************************************************************************)
(* RequestError and its factories (core.py 56-94).                         *)
(***************************************************************************)
\* The data of an error: null, or an object with one member, kept as the
\* member's name and value ({"method": m} is Data("method", m)).
Data(key, value) == [k |-> key, v |-> value]
NullData == Data("null", <<>>)
AbsentData == Data("absent", <<>>)

RequestError(code, message, data) ==
    [code |-> code, message |-> message, data |-> data]

\* A faulty factory that leaves the method name out of the error's data.
method_not_found_no_data(method) ==
    RequestError(0 - 32601, "Method not found", NullData)

method_not_found(method) ==
    RequestError(0 - 32601, "Method not found", Data("method", method))

invalid_params(data) == RequestError(0 - 32602, "Invalid params", data)

internal_error(data) == RequestError(0 - 32603, "Internal error", data)

\* An "error" member: missing (NoError), null, or an object whose own
\* members may be missing.
ErrorObj(code, message, data) ==
    [k |-> "object", code |-> code, message |-> message, data |-> data]
NoError == [ErrorObj(NoCode, Absent, AbsentData) EXCEPT !.k = "absent"]
NullError == [ErrorObj(NoCode, Absent, AbsentData) EXCEPT !.k = "null"]
EmptyError == ErrorObj(NoCode, Absent, AbsentData)

\* A faulty to_error_obj that leaves the data out of the error object.
to_error_obj_no_data(exc) == ErrorObj(exc.code, exc.message, NullData)

to_error_obj(exc) == ErrorObj(exc.code, exc.message, exc.data)

NoException == RequestError(NoCode, Absent, AbsentData)

(***************************************************************************)
(* The wire names of the methods (spec section 6; acp/meta.py).            *)
(***************************************************************************)
AGENT_METHODS ==
    [initialize |-> <<"initialize">>, authenticate |-> <<"authenticate">>,
     session_new |-> <<"session/new">>, session_load |-> <<"session/load">>,
     session_set_mode |-> <<"session/set_mode">>,
     session_set_model |-> <<"session/set_model">>,
     session_prompt |-> <<"session/prompt">>,
     session_cancel |-> <<"session/cancel">>]

CLIENT_METHODS ==
    [session_update |-> <<"session/update">>,
     session_request_permission |-> <<"session/request_permission">>,
     fs_read_text_file |-> <<"fs/read_text_file">>,
     fs_write_text_file |-> <<"fs/write_text_file">>,
     terminal_create |-> <<"terminal/create">>,
     terminal_output |-> <<"terminal/output">>,
     terminal_release |-> <<"terminal/release">>,
     terminal_wait_for_exit |-> <<"terminal/wait_for_exit">>,
     terminal_kill |-> <<"terminal/kill">>]

AgentWireNames == {AGENT_METHODS[k] : k \in DOMAIN AGENT_METHODS}
ClientWireNames == {CLIENT_METHODS[k] : k \in DOMAIN CLIENT_METHODS}

(***************************************************************************)
(* Params are kept abstract: PValid, PUpdate1 and PUpdate2 are params      *)
(* objects that the schema model of the frame's method accepts (two        *)
(* session updates that differ in content), PInvalid is one that it rejects *)
(* (S5: {"protocolVersion": "oops"}); null and {} are rejected as well,    *)
(* every request model having a required field.                            *)
(***************************************************************************)
PValid == "<valid params>"
PInvalid == "<invalid params>"
PUpdate1 == "<valid params: update 1>"
PUpdate2 == "<valid params: update 2>"
ValidParams == {PValid, PUpdate1, PUpdate2}

model_validate(model, params) == params \in ValidParams

\* params or {}: None and the empty containers are falsy
EmptyArr == "[]"
Falsy == {Null, EmptyObj, EmptyArr}
OrEmpty(params) == IF params \in Falsy THEN EmptyObj ELSE params

(***************************************************************************)
(* What a router decides before anything is awaited: raise an error,       *)
(* fail validation, return a value without calling the implementation, or  *)
(* call a method of the implementation (and then how its return value is   *)
(* passed on: "raw", through _optional_result, or replaced by None).       *)
(***************************************************************************)
NO_MATCH == [act |-> "no_match", err |-> NoException, fn |-> "", arg |-> Null,
             name |-> <<>>, post |-> "", val |-> Null]

Raise(e) == [NO_MATCH EXCEPT !.act = "raise", !.err = e]
Invalid(model) == [NO_MATCH EXCEPT !.act = "invalid", !.fn = model]
Return(v) == [NO_MATCH EXCEPT !.act = "return", !.val = v]
Call(fn, arg, post) ==
    [NO_MATCH EXCEPT !.act = "call", !.fn = fn, !.arg = arg, !.post = post]
CallExt(fn, name, arg, post) ==
    [NO_MATCH EXCEPT !.act = "call", !.fn = fn, !.name = name, !.arg = arg,
                     !.post = post]

\* A faulty router that passes the params on without validating them.
Validated_unchecked(model, params, then) == then

\* request = Model.model_validate(params); <then>
Validated(model, params, then) ==
    IF model_validate(model, params) THEN then ELSE Invalid(model)

_handle_agent_init_methods(has, method, params) ==
    IF method = AGENT_METHODS.initialize
    THEN Validated("InitializeRequest", params, Call("initialize", params, "raw"))
    ELSE IF method = AGENT_METHODS.session_new
    THEN Validated("NewSessionRequest", params, Call("newSession", params, "raw"))
    ELSE NO_MATCH

_handle_agent_session_methods(has, method, params) ==
    IF method = AGENT_METHODS.session_load
    THEN IF "loadSession" \notin has THEN Raise(method_not_found(method))
         ELSE Validated("LoadSessionRequest", params,
                        Call("loadSession", params, "optional"))
    ELSE IF method = AGENT_METHODS.session_set_mode
    THEN IF "setSessionMode" \notin has THEN Raise(method_not_found(method))
         ELSE Validated("SetSessionModeRequest", params,
                        Call("setSessionMode", params, "optional"))
    ELSE IF method = AGENT_METHODS.session_prompt
    THEN Validated("PromptRequest", params, Call("prompt", params, "raw"))
    ELSE IF method = AGENT_METHODS.session_set_model
    THEN IF "setSessionModel" \notin has THEN Raise(method_not_found(method))
         ELSE Validated("SetSessionModelRequest", params,
                        Call("setSessionModel", params, "optional"))
    ELSE IF method = AGENT_METHODS.session_cancel
    THEN Validated("CancelNotification", params, Call("cancel", params, "raw"))
    ELSE NO_MATCH

_handle_agent_auth_methods(has, method, params) ==
    IF method = AGENT_METHODS.authenticate
    THEN IF "authenticate" \notin has THEN Raise(method_not_found(method))
         ELSE Validated("AuthenticateRequest", params,
                        Call("authenticate", params, "optional"))
    ELSE NO_MATCH

\* A faulty extension router that answers a request with null when the
\* implementation has no extMethod hook.
_handle_agent_extension_methods_lenient(has, method, params, is_notification) ==
    IF StartsWithUnderscore(method)
    THEN IF is_notification
         THEN IF "extNotification" \in has
              THEN CallExt("extNotification", StripFirst(method),
                           OrEmpty(params), "none")
              ELSE Return(Null)
         ELSE IF "extMethod" \in has
              THEN CallExt("extMethod", StripFirst(method), OrEmpty(params), "raw")
              ELSE Return(Null)
    ELSE NO_MATCH

_handle_agent_extension_methods(has, method, params, is_notification) ==
    IF StartsWithUnderscore(method)
    THEN IF is_notification
         THEN IF "extNotification" \in has
              THEN CallExt("extNotification", StripFirst(method),
                           OrEmpty(params), "none")
              ELSE Return(Null)
         ELSE IF "extMethod" \in has
              THEN CallExt("extMethod", StripFirst(method), OrEmpty(params), "raw")
              ELSE NO_MATCH
    ELSE NO_MATCH

_handle_agent_method(has, method, params, is_notification) ==
    LET r1 == _handle_agent_init_methods(has, method, params)
        r2 == _handle_agent_session_methods(has, method, params)
        r3 == _handle_agent_auth_methods(has, method, params)
        ext == _handle_agent_extension_methods(has, method, params, is_notification)
    IN  IF r1 # NO_MATCH THEN r1
        ELSE IF r2 # NO_MATCH THEN r2
        ELSE IF r3 # NO_MATCH THEN r3
        ELSE IF ext # NO_MATCH THEN ext
        ELSE Raise(method_not_found(method))

_handle_client_core_methods(has, method, params) ==
    IF method = CLIENT_METHODS.fs_write_text_file
    THEN Validated("WriteTextFileRequest", params,
                   Call("writeTextFile", params, "raw"))
    ELSE IF method = CLIENT_METHODS.fs_read_text_file
    THEN Validated("ReadTextFileRequest", params,
                   Call("readTextFile", params, "raw"))
    ELSE IF method = CLIENT_METHODS.session_request_permission
    THEN Validated("RequestPermissionRequest", params,
                   Call("requestPermission", params, "raw"))
    ELSE IF method = CLIENT_METHODS.session_update
    THEN Validated("SessionNotification", params,
                   Call("sessionUpdate", params, "none"))
    ELSE NO_MATCH

\* A faulty terminal resolver that validates params before it looks for the
\* handler: invalid params of a method without handler give an error.
_handle_client_terminal_methods_validating(has, method, params) ==
    IF method = CLIENT_METHODS.terminal_create
    THEN Validated("CreateTerminalRequest", params,
                   IF "createTerminal" \notin has THEN Return(Null)
                   ELSE Call("createTerminal", params, "raw"))
    ELSE IF method = CLIENT_METHODS.terminal_output
    THEN Validated("TerminalOutputRequest", params,
                   IF "terminalOutput" \notin has THEN Return(Null)
                   ELSE Call("terminalOutput", params, "raw"))
    ELSE IF method = CLIENT_METHODS.terminal_release
    THEN Validated("ReleaseTerminalRequest", params,
                   IF "releaseTerminal" \notin has THEN Return(EmptyObj)
                   ELSE Call("releaseTerminal", params, "optional"))
    ELSE IF method = CLIENT_METHODS.terminal_wait_for_exit
    THEN Validated("WaitForTerminalExitRequest", params,
                   IF "waitForTerminalExit" \notin has THEN Return(Null)
                   ELSE Call("waitForTerminalExit", params, "raw"))
    ELSE IF method = CLIENT_METHODS.terminal_kill
    THEN Validated("KillTerminalCommandRequest", params,
                   IF "killTerminal" \notin has THEN Return(EmptyObj)
                   ELSE Call("killTerminal", params, "optional"))
    ELSE NO_MATCH

_handle_client_terminal_methods(has, method, params) ==
    IF method = CLIENT_METHODS.terminal_create
    THEN IF "createTerminal" \notin has THEN Return(Null)
         ELSE Validated("CreateTerminalRequest", params,
                        Call("createTerminal", params, "raw"))
    ELSE IF method = CLIENT_METHODS.terminal_output
    THEN IF "terminalOutput" \notin has THEN Return(Null)
         ELSE Validated("TerminalOutputRequest", params,
                        Call("terminalOutput", params, "raw"))
    ELSE IF method = CLIENT_METHODS.terminal_release
    THEN IF "releaseTerminal" \notin has THEN Return(EmptyObj)
         ELSE Validated("ReleaseTerminalRequest", params,
                        Call("releaseTerminal", params, "optional"))
    ELSE IF method = CLIENT_METHODS.terminal_wait_for_exit
    THEN IF "waitForTerminalExit" \notin has THEN Return(Null)
         ELSE Validated("WaitForTerminalExitRequest", params,
                        Call("waitForTerminalExit", params, "raw"))
    ELSE IF method = CLIENT_METHODS.terminal_kill
    THEN IF "killTerminal" \notin has THEN Return(EmptyObj)
         ELSE Validated("KillTerminalCommandRequest", params,
                        Call("killTerminal", params, "optional"))
    ELSE NO_MATCH

_handle_client_extension_methods(has, method, params, is_notification) ==
    IF StartsWithUnderscore(method)
    THEN IF is_notification
         THEN IF "extNotification" \in has
              THEN CallExt("extNotification", StripFirst(method),
                           OrEmpty(params), "none")
              ELSE Return(Null)
         ELSE IF "extMethod" \in has
              THEN CallExt("extMethod", StripFirst(method), OrEmpty(params), "raw")
              ELSE NO_MATCH
    ELSE NO_MATCH

_handle_client_method(has, method, params, is_notification) ==
    LET r1 == _handle_client_core_methods(has, method, params)
        r2 == _handle_client_terminal_methods(has, method, params)
        ext == _handle_client_extension_methods(has, method, params, is_notification)
    IN  IF r1 # NO_MATCH THEN r1
        ELSE IF r2 # NO_MATCH THEN r2
        ELSE IF ext # NO_MATCH THEN ext
        ELSE Raise(method_not_found(method))

\* The handler a facade binds to its connection (_create_agent_handler for
\* an AgentSideConnection, _create_client_handler for a ClientSideConnection).
handler(sd, has, method, params, is_notification) ==
    IF sd = "agent"
    THEN _handle_agent_method(has, method, params, is_notification)
    ELSE _handle_client_method(has, method, params, is_notification)

\* _optional_result: None becomes {}
_optional_result(payload) == IF payload = Null THEN EmptyObj ELSE payload

\* What the router returns once the implementation method has returned v.
RouterReturn(post, v) ==
    IF post = "optional" THEN _optional_result(v)
    ELSE IF post = "none" THEN Null
    ELSE v

(***************************************************************************)
(* Frames.  One record shape serves every JSON object on the wire; a key   *)
(* the object does not carry is Absent (MAbsent, NoId, NoError).  The      *)
(* field json tells an object from a line that is not JSON at all and from *)
(* a JSON value that is no object; src (not on the wire) names the writer  *)
(* of an outbound frame; size is the length of the line in bytes where a   *)
(* behaviour depends on it, and AnySize elsewhere.                         *)
(***************************************************************************)
NoWriter == <<"none", 0>>
AnySize == 0

Obj(method, id, params, result, error) ==
    [json |-> "object", method |-> method, id |-> id, params |-> params,
     result |-> result, error |-> error, src |-> NoWriter, size |-> AnySize]

Malformed == [Obj(MAbsent, NoId, Absent, Absent, NoError) EXCEPT !.json = "invalid"]
NonObject == [Obj(MAbsent, NoId, Absent, Absent, NoError) EXCEPT !.json = "nonobject"]

HasResult(f) == f.result # Absent
HasError(f) == f.error # NoError

(***************************************************************************)
(* What awaiting the handler of a request does: it returns a value or it   *)
(* raises.  The text of an exception is either JSON or not.                *)
(***************************************************************************)
Returns(v) == [k |-> "return", v |-> v, err |-> NoException, text |-> ""]
RaisesRequestError(e) == [k |-> "request_error", v |-> Null, err |-> e, text |-> ""]
RaisesValidationError(model) ==
    [k |-> "validation_error", v |-> Null, err |-> NoException, text |-> model]
RaisesException(text) ==
    [k |-> "exception", v |-> Null, err |-> NoException, text |-> text]

JsonTexts == {"{\"k\":1}", "null"}
IsJsonText(text) == text \in JsonTexts

\* json.loads of a text that is JSON: the text "null" gives None, an object
\* is kept as the value of its text.
json_loads(text) == IF text = "null" THEN NullData ELSE Data("json", <<text>>)

\* A faulty _handle_request that never tries json.loads(str(exc)).
ResponsePayload_details_only(message, outcome) ==
    LET payload == Obj(MAbsent, message.id, Absent, Absent, NoError)
    IN  IF outcome.k = "return"
        THEN [payload EXCEPT !.result = outcome.v]
        ELSE IF outcome.k = "request_error"
        THEN [payload EXCEPT !.error = to_error_obj(outcome.err)]
        ELSE IF outcome.k = "validation_error"
        THEN [payload EXCEPT !.error =
                 to_error_obj(invalid_params(Data("errors", <<outcome.text>>)))]
        ELSE [payload EXCEPT !.error =
                 to_error_obj(internal_error(Data("details", <<outcome.text>>)))]

\* A faulty _handle_request that sets "result": null in every payload before
\* the handler is awaited.
ResponsePayload_result_always(message, outcome) ==
    LET payload == Obj(MAbsent, message.id, Absent, Null, NoError)
    IN  IF outcome.k = "return"
        THEN [payload EXCEPT !.result = outcome.v]
        ELSE IF outcome.k = "request_error"
        THEN [payload EXCEPT !.error = to_error_obj(outcome.err)]
        ELSE [payload EXCEPT !.error =
                 to_error_obj(internal_error(Data("details", <<outcome.text>>)))]

\* _handle_request, from the handler's outcome to the payload it sends
ResponsePayload(message, outcome) ==
    LET payload == Obj(MAbsent, message.id, Absent, Absent, NoError)
    IN  IF outcome.k = "return"
        THEN [payload EXCEPT !.result = outcome.v]
        ELSE IF outcome.k = "request_error"
        THEN [payload EXCEPT !.error = to_error_obj(outcome.err)]
        ELSE IF outcome.k = "validation_error"
        THEN [payload EXCEPT !.error =
                 to_error_obj(invalid_params(Data("errors", <<outcome.text>>)))]
        ELSE [payload EXCEPT !.error =
                 to_error_obj(internal_error(
                     IF IsJsonText(outcome.text)
                     THEN json_loads(outcome.text)
                     ELSE Data("details", <<outcome.text>>)))]

\* The outcome of a handler that ends without calling the implementation.
ImmediateOutcome(plan) ==
    IF plan.act = "raise" THEN RaisesRequestError(plan.err)
    ELSE IF plan.act = "invalid" THEN RaisesValidationError(plan.fn)
    ELSE Returns(plan.val)

\* The outcome of a handler whose implementation method ended with `o`.
RoutedOutcome(plan, o) ==
    IF o.k = "return" THEN Returns(RouterReturn(plan.post, o.v)) ELSE o

(***************************************************************************)
(* State.                                                                  *)
(***************************************************************************)
VARIABLES
    side,             \* "agent": an AgentSideConnection, "client": a ClientSideConnection
    has,              \* the method names the implementation object defines (hasattr)
    next_request_id,  \* Connection._next_request_id
    pending,          \* Connection._pending: request id -> the call whose future it holds
    inflight,         \* Connection._inflight: the handler tasks (by inbox index)
    lock_owner,       \* Connection._write_lock: the writer inside the lock, or NoWriter
    lock_waiters,     \* the writers queued on the lock, each with the frame it will write
    out,              \* the frames written to the StreamWriter, in order
    inbox,            \* the lines the receive loop has read, in order
    recv,             \* the receive task: "reading", "notification", "eof", "cancelled", "crashed"
    task,             \* the handler tasks created by _schedule, by inbox index
    call,             \* the send_request / send_notification calls made, in order
    closing,          \* close(): where it is ("no", "recv", "tasks", "done"), the tasks it awaits, the calls made
    invoked,          \* the calls made to methods of the implementation, in order
    golden,           \* the golden case under test: the value, its model, the dump of the model
    flush_failed      \* the writers whose writer.drain() raised ConnectionError or RuntimeError

vars == <<side, has, next_request_id, pending, inflight, lock_owner,
          lock_waiters, out, inbox, recv, task, call, closing, invoked,
          golden, flush_failed>>

AgentAttrs == {"initialize", "newSession", "loadSession", "setSessionMode",
               "setSessionModel", "authenticate", "prompt", "cancel",
               "extMethod", "extNotification"}
ClientAttrs == {"requestPermission", "sessionUpdate", "writeTextFile",
                "readTextFile", "createTerminal", "terminalOutput",
                "releaseTerminal", "waitForTerminalExit", "killTerminal",
                "extMethod", "extNotification"}

\* No golden case is under test.
NoCase == [stage |-> "none"]

NoFuture == [st |-> "none", val |-> Null, err |-> NoException]
PendingFuture == [st |-> "pending", val |-> Null, err |-> NoException]

\* Connection.__init__
InitConnection ==
    /\ next_request_id = 0
    /\ pending = <<>>
    /\ inflight = {}
    /\ lock_owner = NoWriter
    /\ lock_waiters = <<>>
    /\ out = <<>>
    /\ inbox = <<>>
    /\ recv = "reading"
    /\ task = <<>>
    /\ call = <<>>
    /\ closing = [st |-> "no", wait |-> {}, calls |-> 0]
    /\ invoked = <<>>
    /\ golden = NoCase
    /\ flush_failed = {}

(***************************************************************************)
(* The write lock and _send_obj.  asyncio.Lock is first come first served: *)
(* acquire() returns at once when the lock is free and nobody waits, and   *)
(* release() hands the lock to the longest waiting writer, which then      *)
(* writes its frame.  A writer is <<"call", k>> or <<"task", i>>.          *)
(***************************************************************************)
SetPc(f, kind, w, pc) ==
    IF w[1] = kind THEN [f EXCEPT ![w[2]].pc = pc] ELSE f

\* A faulty _send_obj that writes and drains without taking the write lock.
_send_obj_unlocked(w, payload, tk, cl) ==
    /\ lock_owner' = w
    /\ out' = Append(out, [payload EXCEPT !.src = w])
    /\ lock_waiters' = lock_waiters
    /\ task' = SetPc(tk, "task", w, "drain")
    /\ call' = SetPc(cl, "call", w, "drain")

\* _send_obj up to its first suspension: the frame is written if the lock
\* is free, else the writer queues.  tk and cl are task and call as the
\* calling step leaves them.
_send_obj(w, payload, tk, cl) ==
    LET frame == [payload EXCEPT !.src = w]
    IN  IF lock_owner = NoWriter /\ lock_waiters = <<>>
        THEN /\ lock_owner' = w
             /\ out' = Append(out, frame)
             /\ lock_waiters' = lock_waiters
             /\ task' = SetPc(tk, "task", w, "drain")
             /\ call' = SetPc(cl, "call", w, "drain")
        ELSE /\ lock_waiters' = Append(lock_waiters, [w |-> w, frame |-> frame])
             /\ UNCHANGED <<lock_owner, out>>
             /\ task' = SetPc(tk, "task", w, "lock")
             /\ call' = SetPc(cl, "call", w, "lock")

\* A faulty lock whose release does not wake the writers that wait for it.
Release_no_wakeup(ws, tk, cl) ==
    /\ lock_owner' = NoWriter
    /\ lock_waiters' = ws
    /\ out' = out
    /\ task' = tk
    /\ call' = cl

\* Leaving `async with self._write_lock`: the lock goes to the first of the
\* waiters `ws`, which writes its frame and starts to drain.
Release(ws, tk, cl) ==
    IF ws = <<>>
    THEN /\ lock_owner' = NoWriter
         /\ lock_waiters' = <<>>
         /\ out' = out
         /\ task' = tk
         /\ call' = cl
    ELSE LET nxt == Head(ws)
         IN  /\ lock_owner' = nxt.w
             /\ lock_waiters' = Tail(ws)
             /\ out' = Append(out, nxt.frame)
             /\ task' = SetPc(tk, "task", nxt.w, "drain")
             /\ call' = SetPc(cl, "call", nxt.w, "drain")

Without(ws, gone) == SelectSeq(ws, LAMBDA x : x.w \notin gone)

\* A writer is cancelled at its await point in _send_obj (waiting for the
\* lock, or draining inside it) or outside of it.
CancelWriters(gone, tk, cl) ==
    IF lock_owner \in gone
    THEN Release(Without(lock_waiters, gone), tk, cl)
    ELSE /\ lock_waiters' = Without(lock_waiters, gone)
         /\ UNCHANGED <<lock_owner, out>>
         /\ task' = tk
         /\ call' = cl

(***************************************************************************)
(* Outbound calls.                                                         *)
(***************************************************************************)
NewCall(kind, id, fut) == [kind |-> kind, id |-> id, pc |-> "start", fut |-> fut]

\* A faulty send_request that does not advance the counter (line 61 left out).
send_request_same_id(method, params) ==
    LET request_id == next_request_id
        k == Len(call) + 1
    IN  /\ next_request_id' = next_request_id
        /\ pending' = (request_id :> k) @@ pending
        /\ _send_obj(<<"call", k>>, Obj(method, request_id, params, Absent, NoError),
                     task, Append(call, NewCall("request", request_id, PendingFuture)))
        /\ UNCHANGED <<golden, flush_failed, side, has, inflight, inbox, recv, closing, invoked>>

\* send_request up to its first suspension (no await lies between the
\* allocation of the id and the attempt to take the write lock)
send_request(method, params) ==
    LET request_id == next_request_id
        k == Len(call) + 1
    IN  /\ next_request_id' = next_request_id + 1
        /\ pending' = (request_id :> k) @@ pending
        /\ _send_obj(<<"call", k>>, Obj(method, request_id, params, Absent, NoError),
                     task, Append(call, NewCall("request", request_id, PendingFuture)))
        /\ UNCHANGED <<golden, flush_failed, side, has, inflight, inbox, recv, closing, invoked>>

send_notification(method, params) ==
    LET k == Len(call) + 1
    IN  /\ _send_obj(<<"call", k>>, Obj(method, NoId, params, Absent, NoError),
                     task, Append(call, NewCall("notification", NoId, NoFuture)))
        /\ UNCHANGED <<golden, flush_failed, side, has, next_request_id, pending, inflight, inbox,
                       recv, closing, invoked>>

\* The pc of a writer that leaves _send_obj normally.
AfterSend(w) ==
    IF w[1] = "task" THEN "done"
    ELSE IF call[w[2]].kind = "request" THEN "await" ELSE "returned"

\* writer.drain() returns (or fails with a ConnectionError or RuntimeError,
\* which is suppressed) and the writer leaves the lock.
DrainDone ==
    /\ lock_owner # NoWriter
    /\ Release(lock_waiters,
               SetPc(task, "task", lock_owner, AfterSend(lock_owner)),
               SetPc(call, "call", lock_owner, AfterSend(lock_owner)))
    /\ UNCHANGED <<golden, flush_failed, side, has, next_request_id, pending, inflight, inbox, recv,
                   closing, invoked>>

\* The exceptions of drain() that _send_obj suppresses (line 157): what a
\* closed or broken stream raises.
SuppressedByDrain == {"ConnectionError", "RuntimeError"}

\* A faulty _send_obj without contextlib.suppress around drain(): the
\* failure leaves the lock and is raised in the writer.
DrainFails_raise(exc) ==
    /\ exc \in SuppressedByDrain
    /\ lock_owner # NoWriter
    /\ Release(lock_waiters,
               SetPc(task, "task", lock_owner, "done"),
               SetPc(call, "call", lock_owner, "raised"))
    /\ flush_failed' = flush_failed \cup {lock_owner}
    /\ UNCHANGED <<golden, side, has, next_request_id, pending, inflight, inbox, recv,
                   closing, invoked>>

\* writer.drain() fails with a ConnectionError or a RuntimeError: the
\* exception is suppressed and the writer leaves the lock as after a drain
\* that returned.
DrainFails(exc) ==
    /\ exc \in SuppressedByDrain
    /\ lock_owner # NoWriter
    /\ Release(lock_waiters,
               SetPc(task, "task", lock_owner, AfterSend(lock_owner)),
               SetPc(call, "call", lock_owner, AfterSend(lock_owner)))
    /\ flush_failed' = flush_failed \cup {lock_owner}
    /\ UNCHANGED <<golden, side, has, next_request_id, pending, inflight, inbox, recv,
                   closing, invoked>>

\* `return await future` once the future is settled
CallerResume(k) ==
    /\ call[k].pc = "await"
    /\ call[k].fut.st \in {"result", "error"}
    /\ call' = [call EXCEPT ![k].pc = IF call[k].fut.st = "result"
                                       THEN "returned" ELSE "raised"]
    /\ UNCHANGED <<golden, flush_failed, side, has, next_request_id, pending, inflight, lock_owner,
                   lock_waiters, out, inbox, recv, task, closing, invoked>>

\* The task that awaits send_request / send_notification is cancelled (a
\* timeout around the call, examples/agent.py 106-116): CancelledError is
\* raised at the await it is suspended in.  A future being awaited is
\* cancelled with its task.
CancelCaller(k) ==
    /\ call[k].pc \in {"lock", "drain", "await"}
    /\ LET c == call[k]
           fut == IF c.pc = "await" /\ c.fut.st = "pending"
                  THEN [c.fut EXCEPT !.st = "cancelled"] ELSE c.fut
           cl == [call EXCEPT ![k].pc = "cancelled", ![k].fut = fut]
       IN  IF c.pc = "await"
           THEN /\ call' = cl
                /\ UNCHANGED <<lock_owner, lock_waiters, out, task>>
           ELSE CancelWriters({<<"call", k>>}, task, cl)
    /\ UNCHANGED <<golden, flush_failed, side, has, next_request_id, pending, inflight, inbox, recv,
                   closing, invoked>>

(***************************************************************************)
(* Inbound requests: _schedule, _handle_request, _task_done.               *)
(***************************************************************************)
\* message.get("params")
GetParams(message) == IF message.params = Absent THEN Null ELSE message.params

Invocation(plan, i) ==
    [fn |-> plan.fn, name |-> plan.name, arg |-> plan.arg, src |-> i]

\* A faulty scheduler that serves requests first in, first out: a handler
\* task starts only when every request received before it is finished.
TaskStart_fifo(i) ==
    /\ \A h \in DOMAIN task : h < i => task[h].pc \notin {"scheduled", "impl"}
    /\ task[i].pc = "scheduled"
    /\ LET message == inbox[i]
           plan == handler(side, has, message.method, GetParams(message), FALSE)
       IN  IF plan.act = "call"
           THEN /\ invoked' = Append(invoked, Invocation(plan, i))
                /\ task' = [task EXCEPT ![i].pc = "impl"]
                /\ UNCHANGED <<lock_owner, lock_waiters, out, call>>
           ELSE /\ _send_obj(<<"task", i>>,
                             ResponsePayload(message, ImmediateOutcome(plan)),
                             task, call)
                /\ UNCHANGED invoked
    /\ UNCHANGED <<golden, flush_failed, side, has, next_request_id, pending, inflight, inbox, recv,
                   closing>>

\* The task starts: the handler runs up to the implementation's method, or
\* ends before it and the response is sent.
TaskStart(i) ==
    /\ task[i].pc = "scheduled"
    /\ LET message == inbox[i]
           plan == handler(side, has, message.method, GetParams(message), FALSE)
       IN  IF plan.act = "call"
           THEN /\ invoked' = Append(invoked, Invocation(plan, i))
                /\ task' = [task EXCEPT ![i].pc = "impl"]
                /\ UNCHANGED <<lock_owner, lock_waiters, out, call>>
           ELSE /\ _send_obj(<<"task", i>>,
                             ResponsePayload(message, ImmediateOutcome(plan)),
                             task, call)
                /\ UNCHANGED invoked
    /\ UNCHANGED <<golden, flush_failed, side, has, next_request_id, pending, inflight, inbox, recv,
                   closing>>

\* A faulty _handle_request that lets what the handler raises escape: the
\* failure ends the receive loop and cancels the other handler tasks.
TaskImplFinish_teardown(i, o) ==
    /\ task[i].pc = "impl"
    /\ LET message == inbox[i]
           plan == handler(side, has, message.method, GetParams(message), FALSE)
       IN  IF o.k = "return"
           THEN /\ _send_obj(<<"task", i>>,
                             ResponsePayload(message, RoutedOutcome(plan, o)),
                             task, call)
                /\ recv' = recv
           ELSE /\ recv' = "crashed"
                /\ CancelWriters({<<"task", j>> : j \in DOMAIN task},
                                 [j \in DOMAIN task |-> [pc |-> "cancelled"]], call)
    /\ UNCHANGED <<golden, flush_failed, side, has, next_request_id, pending, inflight, inbox,
                   closing, invoked>>

\* The implementation's method returns or raises: the response is sent.
TaskImplFinish(i, o) ==
    /\ task[i].pc = "impl"
    /\ LET message == inbox[i]
           plan == handler(side, has, message.method, GetParams(message), FALSE)
       IN  _send_obj(<<"task", i>>,
                     ResponsePayload(message, RoutedOutcome(plan, o)), task, call)
    /\ UNCHANGED <<golden, flush_failed, side, has, next_request_id, pending, inflight, inbox, recv,
                   closing, invoked>>

TaskFinished(i) == task[i].pc \in {"done", "cancelled"}

\* The done callback of a finished task
_task_done(i) ==
    /\ i \in inflight
    /\ TaskFinished(i)
    /\ inflight' = inflight \ {i}
    /\ UNCHANGED <<golden, flush_failed, side, has, next_request_id, pending, lock_owner, lock_waiters,
                   out, inbox, recv, task, call, closing, invoked>>

(***************************************************************************)
(* The receive loop: _receive_loop, _process_message, _handle_notification *)
(* and _handle_response.                                                   *)
(***************************************************************************)
\* A faulty _handle_response that looks at "error" before "result": a
\* frame with both keys raises at the caller.
Settlement_error_first(message) ==
    IF HasError(message)
    THEN LET error_obj == IF message.error.k = "null" THEN EmptyError
                          ELSE message.error
         IN  [st |-> "error", val |-> Null,
              err |-> RequestError(
                  IF error_obj.code = NoCode THEN 0 - 32603 ELSE error_obj.code,
                  IF error_obj.message = Absent THEN "Error" ELSE error_obj.message,
                  IF error_obj.data = AbsentData THEN NullData ELSE error_obj.data)]
    ELSE IF HasResult(message)
    THEN [st |-> "result", val |-> message.result, err |-> NoException]
    ELSE [st |-> "result", val |-> Null, err |-> NoException]

\* What _handle_response settles the future with
Settlement(message) ==
    IF HasResult(message)
    THEN [st |-> "result", val |-> message.result, err |-> NoException]
    ELSE IF HasError(message)
    THEN LET error_obj == IF message.error.k = "null" THEN EmptyError
                          ELSE message.error
         IN  [st |-> "error", val |-> Null,
              err |-> RequestError(
                  IF error_obj.code = NoCode THEN 0 - 32603 ELSE error_obj.code,
                  IF error_obj.message = Absent THEN "Error" ELSE error_obj.message,
                  IF error_obj.data = AbsentData THEN NullData ELSE error_obj.data)]
    ELSE [st |-> "result", val |-> Null, err |-> NoException]

\* A faulty _handle_response that settles the oldest pending entry, whatever
\* the id of the response.
_handle_response_oldest(message) ==
    IF DOMAIN pending = {}
    THEN UNCHANGED <<pending, call, recv>>
    ELSE LET id == CHOOSE x \in DOMAIN pending : \A y \in DOMAIN pending : x <= y
             k == pending[id]
         IN  /\ pending' = [x \in DOMAIN pending \ {id} |-> pending[x]]
             /\ IF call[k].fut.st = "pending"
                THEN /\ call' = [call EXCEPT ![k].fut = Settlement(message)]
                     /\ recv' = recv
                ELSE /\ call' = call
                     /\ recv' = "crashed"

\* A faulty _handle_response that reads the entry with get() and leaves it in
\* the table (pop() of line 135 replaced).
_handle_response_keep(message) ==
    IF message.id \notin DOMAIN pending
    THEN UNCHANGED <<pending, call, recv>>
    ELSE LET k == pending[message.id]
         IN  /\ pending' = pending
             /\ recv' = recv
             /\ call' = [call EXCEPT ![k].fut = Settlement(message)]

\* A faulty _handle_response that looks the id up with self._pending[id]:
\* an id that is not in the table raises KeyError, which ends the loop.
_handle_response_strict(message) ==
    IF message.id \notin DOMAIN pending
    THEN /\ recv' = "crashed"
         /\ UNCHANGED <<pending, call>>
    ELSE LET k == pending[message.id]
         IN  /\ pending' = [x \in DOMAIN pending \ {message.id} |-> pending[x]]
             /\ IF call[k].fut.st = "pending"
                THEN /\ call' = [call EXCEPT ![k].fut = Settlement(message)]
                     /\ recv' = recv
                ELSE /\ call' = call
                     /\ recv' = "crashed"

\* Settling a future that is no longer pending (its awaiting task was
\* cancelled) raises InvalidStateError, which nothing in the loop catches.
_handle_response(message) ==
    IF message.id \notin DOMAIN pending
    THEN UNCHANGED <<pending, call, recv>>
    ELSE LET k == pending[message.id]
         IN  /\ pending' = [x \in DOMAIN pending \ {message.id} |-> pending[x]]
             /\ IF call[k].fut.st = "pending"
                THEN /\ call' = [call EXCEPT ![k].fut = Settlement(message)]
                     /\ recv' = recv
                ELSE /\ call' = call
                     /\ recv' = "crashed"

\* A faulty _handle_notification without contextlib.suppress: what the
\* handler raises before it calls the implementation ends the receive loop.
_handle_notification_unsuppressed(i, message) ==
    LET plan == handler(side, has, message.method, GetParams(message), TRUE)
    IN  IF plan.act = "call"
        THEN /\ invoked' = Append(invoked, Invocation(plan, i))
             /\ recv' = "notification"
        ELSE IF plan.act \in {"raise", "invalid"}
        THEN /\ invoked' = invoked
             /\ recv' = "crashed"
        ELSE UNCHANGED <<invoked, recv>>

\* A faulty _handle_notification that drops a notification whose method
\* and params were delivered before.
_handle_notification_dedup(i, message) ==
    LET plan == handler(side, has, message.method, GetParams(message), TRUE)
        seen == \E n \in DOMAIN invoked :
                    invoked[n].fn = plan.fn /\ invoked[n].arg = plan.arg
    IN  IF plan.act = "call" /\ ~seen
        THEN /\ invoked' = Append(invoked, Invocation(plan, i))
             /\ recv' = "notification"
        ELSE UNCHANGED <<invoked, recv>>

\* A faulty _handle_notification that delivers nothing while the handler of
\* a request is running.
_handle_notification_when_idle(i, message) ==
    LET plan == handler(side, has, message.method, GetParams(message), TRUE)
        busy == \E t \in DOMAIN task : task[t].pc = "impl"
    IN  IF plan.act = "call" /\ ~busy
        THEN /\ invoked' = Append(invoked, Invocation(plan, i))
             /\ recv' = "notification"
        ELSE UNCHANGED <<invoked, recv>>

\* A faulty _handle_notification that hands the handler to a task of its
\* own and returns at once: the loop goes on reading while it runs.
_handle_notification_detached(i, message) ==
    LET plan == handler(side, has, message.method, GetParams(message), TRUE)
    IN  IF plan.act = "call"
        THEN /\ invoked' = Append(invoked, Invocation(plan, i))
             /\ recv' = recv
        ELSE UNCHANGED <<invoked, recv>>

\* The handler is awaited inline; whatever it raises is swallowed.
_handle_notification(i, message) ==
    LET plan == handler(side, has, message.method, GetParams(message), TRUE)
    IN  IF plan.act = "call"
        THEN /\ invoked' = Append(invoked, Invocation(plan, i))
             /\ recv' = "notification"
        ELSE UNCHANGED <<invoked, recv>>

\* A faulty _schedule that creates the task without adding it to the
\* in-flight set (line 101 left out).
_schedule_untracked(i) ==
    /\ task' = (i :> [pc |-> "scheduled"]) @@ task
    /\ inflight' = inflight

_schedule(i) ==
    /\ task' = (i :> [pc |-> "scheduled"]) @@ task
    /\ inflight' = inflight \cup {i}

\* A faulty _process_message that awaits the handler of a request inline
\* instead of scheduling it: the loop reads nothing until the handler ends.
_process_message_inline(i, message) ==
    LET method == GetMethod(message.method)
        has_id == message.id # NoId
    IN  IF method # MNull /\ has_id
        THEN /\ _schedule(i)
             /\ recv' = "request"
             /\ UNCHANGED <<pending, call, invoked>>
        ELSE IF method # MNull /\ ~has_id
        THEN /\ _handle_notification(i, message)
             /\ UNCHANGED <<pending, call, task, inflight>>
        ELSE IF has_id
        THEN /\ _handle_response(message)
             /\ UNCHANGED <<task, inflight, invoked>>
        ELSE UNCHANGED <<pending, call, recv, invoked, task, inflight>>

\* A faulty _process_message that, for a notification the handler takes,
\* cancels the handler tasks that have not reached _send_obj yet (as if
\* session/cancel were carried out by the connection).
_process_message_cancelling(i, message) ==
    LET method == GetMethod(message.method)
        has_id == message.id # NoId
        plan == handler(side, has, message.method, GetParams(message), TRUE)
    IN  IF method # MNull /\ has_id
        THEN /\ _schedule(i)
             /\ UNCHANGED <<pending, call, recv, invoked>>
        ELSE IF method # MNull /\ ~has_id
        THEN /\ _handle_notification(i, message)
             /\ task' = [t \in DOMAIN task |->
                            IF plan.act = "call" /\ task[t].pc \in {"scheduled", "impl"}
                            THEN [pc |-> "cancelled"] ELSE task[t]]
             /\ UNCHANGED <<pending, call, inflight>>
        ELSE IF has_id
        THEN /\ _handle_response(message)
             /\ UNCHANGED <<task, inflight, invoked>>
        ELSE UNCHANGED <<pending, call, recv, invoked, task, inflight>>

\* A faulty _process_message that hands a notification to a task, as it
\* does a request, and reads on before the handler has run.
_process_message_notify_task(i, message) ==
    LET method == GetMethod(message.method)
        has_id == message.id # NoId
    IN  IF method # MNull
        THEN /\ _schedule(i)
             /\ UNCHANGED <<pending, call, recv, invoked>>
        ELSE IF has_id
        THEN /\ _handle_response(message)
             /\ UNCHANGED <<task, inflight, invoked>>
        ELSE UNCHANGED <<pending, call, recv, invoked, task, inflight>>

_process_message(i, message) ==
    LET method == GetMethod(message.method)
        has_id == message.id # NoId
    IN  IF method # MNull /\ has_id
        THEN /\ _schedule(i)
             /\ UNCHANGED <<pending, call, recv, invoked>>
        ELSE IF method # MNull /\ ~has_id
        THEN /\ _handle_notification(i, message)
             /\ UNCHANGED <<pending, call, task, inflight>>
        ELSE IF has_id
        THEN /\ _handle_response(message)
             /\ UNCHANGED <<task, inflight, invoked>>
        ELSE UNCHANGED <<pending, call, recv, invoked, task, inflight>>

\* A faulty loop without the try/except around json.loads (lines 78-82): a
\* line that is not JSON ends the loop.
Receive_no_except(line) ==
    /\ recv = "reading"
    /\ inbox' = Append(inbox, line)
    /\ IF line.json \in {"invalid", "nonobject"}
       THEN /\ recv' = "crashed"
            /\ UNCHANGED <<pending, call, invoked, task, inflight>>
       ELSE _process_message(Len(inbox) + 1, line)
    /\ UNCHANGED <<golden, flush_failed, side, has, next_request_id, lock_owner, lock_waiters, out,
                   closing>>

\* A faulty loop that goes on reading while it awaits the handler of a
\* notification.
Receive_while_notifying(line) ==
    /\ recv \in {"reading", "notification"}
    /\ inbox' = Append(inbox, line)
    /\ IF line.json = "invalid"
       THEN UNCHANGED <<pending, call, recv, invoked, task, inflight>>
       ELSE IF line.json = "nonobject"
       THEN /\ recv' = "crashed"
            /\ UNCHANGED <<pending, call, invoked, task, inflight>>
       ELSE _process_message(Len(inbox) + 1, line)
    /\ UNCHANGED <<golden, flush_failed, side, has, next_request_id, lock_owner,
                   lock_waiters, out, closing>>

\* One turn of the loop: a line is read, parsed and processed up to the
\* next await.  A JSON value that is no object has no get(): the
\* AttributeError ends the loop.
Receive(line) ==
    /\ recv = "reading"
    /\ inbox' = Append(inbox, line)
    /\ IF line.json = "invalid"
       THEN UNCHANGED <<pending, call, recv, invoked, task, inflight>>
       ELSE IF line.json = "nonobject"
       THEN /\ recv' = "crashed"
            /\ UNCHANGED <<pending, call, invoked, task, inflight>>
       ELSE _process_message(Len(inbox) + 1, line)
    /\ UNCHANGED <<golden, flush_failed, side, has, next_request_id, lock_owner, lock_waiters, out,
                   closing>>

\* The per-line byte limit of the input stream (default 64 KiB).
StdioLimit == 65536

\* readline() fails for a line that is longer than the limit.
readline_fails(size) == size > StdioLimit

Sized(line, size) == [line EXCEPT !.size = size]

\* A faulty loop that logs a failed read and goes on to the next line.
ReceiveSized_skip(line, size) ==
    IF readline_fails(size)
    THEN /\ recv = "reading"
         /\ inbox' = Append(inbox, Sized(line, size))
         /\ UNCHANGED <<golden, flush_failed, side, has, next_request_id, pending, inflight,
                        lock_owner, lock_waiters, out, recv, task, call,
                        closing, invoked>>
    ELSE Receive(Sized(line, size))

\* One turn of the loop over a stream with a limit: the ValueError that
\* readline() raises is caught by nothing in _receive_loop and ends the
\* receive task; the line is consumed and never parsed.
ReceiveSized(line, size) ==
    IF readline_fails(size)
    THEN /\ recv = "reading"
         /\ inbox' = Append(inbox, Sized(line, size))
         /\ recv' = "crashed"
         /\ UNCHANGED <<golden, flush_failed, side, has, next_request_id, pending, inflight,
                        lock_owner, lock_waiters, out, task, call, closing,
                        invoked>>
    ELSE Receive(Sized(line, size))

\* A faulty loop that settles every pending future with an error when the
\* stream ends (no such code follows the break of line 77).
ReceiveEOF_settle ==
    /\ recv = "reading"
    /\ recv' = "eof"
    /\ pending' = <<>>
    /\ call' = [k \in DOMAIN call |->
                  IF /\ \E id \in DOMAIN pending : pending[id] = k
                     /\ call[k].fut.st = "pending"
                  THEN [call[k] EXCEPT !.fut =
                           [st |-> "error", val |-> Null,
                            err |-> internal_error(NullData)]]
                  ELSE call[k]]
    /\ UNCHANGED <<golden, flush_failed, side, has, next_request_id, inflight, lock_owner,
                   lock_waiters, out, inbox, task, closing, invoked>>

\* readline() returns b"": the peer closed the stream
ReceiveEOF ==
    /\ recv = "reading"
    /\ recv' = "eof"
    /\ UNCHANGED <<golden, flush_failed, side, has, next_request_id, pending, inflight, lock_owner,
                   lock_waiters, out, inbox, task, call, closing, invoked>>

\* readline() raises (the stream broke): nothing in _receive_loop catches
\* the exception and the receive task ends with it.
ReceiveFails ==
    /\ recv = "reading"
    /\ recv' = "crashed"
    /\ UNCHANGED <<golden, flush_failed, side, has, next_request_id, pending, inflight, lock_owner,
                   lock_waiters, out, inbox, task, call, closing, invoked>>

\* The implementation's method called for a notification returns or raises.
NotificationDone ==
    /\ recv = "notification"
    /\ recv' = "reading"
    /\ UNCHANGED <<golden, flush_failed, side, has, next_request_id, pending, inflight, lock_owner,
                   lock_waiters, out, inbox, task, call, closing, invoked>>

(***************************************************************************)
(* close(), in its three stretches between awaits.                         *)
(***************************************************************************)
RecvDone == recv \in {"eof", "cancelled", "crashed"}

\* The receive task, unless it is done, is cancelled and awaited.
CloseStart ==
    /\ closing' = [closing EXCEPT !.st = "recv", !.calls = @ + 1]
    /\ recv' = IF RecvDone THEN recv ELSE "cancelled"
    /\ UNCHANGED <<golden, flush_failed, side, has, next_request_id, pending, inflight, lock_owner,
                   lock_waiters, out, inbox, task, call, invoked>>

\* A faulty close() that fails the outstanding calls and empties the
\* pending table.
CloseCancelReceiver_reject ==
    /\ closing.st = "no"
    /\ closing' = [closing EXCEPT !.st = "recv", !.calls = @ + 1]
    /\ recv' = IF RecvDone THEN recv ELSE "cancelled"
    /\ pending' = <<>>
    /\ call' = [k \in DOMAIN call |->
                   IF call[k].fut.st = "pending"
                   THEN [call[k] EXCEPT !.fut =
                            [st |-> "error", val |-> Null,
                             err |-> internal_error(NullData)]]
                   ELSE call[k]]
    /\ UNCHANGED <<golden, flush_failed, side, has, next_request_id, inflight, lock_owner,
                   lock_waiters, out, inbox, task, invoked>>

\* The first call of close()
CloseCancelReceiver ==
    /\ closing.st = "no"
    /\ CloseStart

\* close() is called again after it has returned.
CloseAgain(n) ==
    /\ closing.st = "done"
    /\ closing.calls < n
    /\ CloseStart

\* A faulty close() that returns once the receive task has ended, leaving
\* the handler tasks running.
CloseCancelTasks_no_cancel ==
    /\ closing.st = "recv"
    /\ closing' = [closing EXCEPT !.st = "done"]
    /\ UNCHANGED <<golden, flush_failed, side, has, next_request_id, pending, inflight, lock_owner,
                   lock_waiters, out, inbox, recv, task, call, invoked>>

\* tasks = list(self._inflight); every task of it is cancelled.  A task that
\* has finished already is not affected.
CloseCancelTasks ==
    /\ closing.st = "recv"
    /\ IF inflight = {}
       THEN /\ closing' = [closing EXCEPT !.st = "done"]
            /\ UNCHANGED <<lock_owner, lock_waiters, out, task, call>>
       ELSE LET live == {i \in inflight : ~TaskFinished(i)}
            IN  /\ closing' = [closing EXCEPT !.st = "tasks", !.wait = live]
                /\ CancelWriters({<<"task", i>> : i \in live},
                                 [i \in DOMAIN task |->
                                     IF i \in live THEN [pc |-> "cancelled"]
                                     ELSE task[i]],
                                 call)
    /\ UNCHANGED <<golden, flush_failed, side, has, next_request_id, pending, inflight, inbox, recv,
                   invoked>>

\* `await task` for each: a task close() cancelled wakes close() after its
\* own done callback has run; a task that had finished before does not
\* suspend close() at all.
CloseReturn ==
    /\ closing.st = "tasks"
    /\ closing.wait \cap inflight = {}
    /\ closing' = [closing EXCEPT !.st = "done", !.wait = {}]
    /\ UNCHANGED <<golden, flush_failed, side, has, next_request_id, pending, inflight, lock_owner,
                   lock_waiters, out, inbox, recv, task, call, invoked>>

(***************************************************************************)
(* The actions of the specifications.  The frames a behaviour exchanges    *)
(* (outbound calls made plus lines read) are bounded by a budget n.        *)
(***************************************************************************)
Request(method, id, params) == Obj(method, id, params, Absent, NoError)
Notification(method, params) == Obj(method, NoId, params, Absent, NoError)
Result(id, v) == Obj(MAbsent, id, Absent, v, NoError)
Error(id, e) == Obj(MAbsent, id, Absent, Absent, e)
EmptyObject == Obj(MAbsent, NoId, Absent, Absent, NoError)

Budget(n) == Len(call) + Len(inbox) < n

CallRequest(n) ==
    /\ Budget(n)
    /\ send_request(<<"out/request">>, PValid)

CallNotification(n) ==
    /\ Budget(n)
    /\ send_notification(<<"out/notification">>, PValid)

Cancel == \E k \in DOMAIN call : CancelCaller(k)

Resume == \E k \in DOMAIN call : CallerResume(k)

ReceiveLine(L, n) ==
    /\ Budget(n)
    /\ \E line \in L : Receive(line)

StartTask == \E i \in DOMAIN task : TaskStart(i)

FinishImpl(O) == \E i \in DOMAIN task : \E o \in O : TaskImplFinish(i, o)

TaskDone == \E i \in DOMAIN task : _task_done(i)

Close == CloseCancelReceiver \/ CloseCancelTasks \/ CloseReturn

AuthRequired == RequestError(0 - 32000, "Authentication required", NullData)

\* An agent-side connection whose implementation defines every method.
Init ==
    /\ side = "agent"
    /\ has = AgentAttrs
    /\ InitConnection

(***************************************************************************)
(* Spec: outbound calls.  Several send_request / send_notification calls   *)
(* are in flight, their callers may be cancelled, the peer answers in any  *)
(* order and sends a request of its own, whose response competes for the   *)
(* write lock.                                                             *)
(***************************************************************************)
MaxFrames == 4

Lines ==
    {Request(AGENT_METHODS.session_prompt, 0, PValid),
     Result(0, "a"), Result(0, "b"), Result(1, "b")}

ImplOutcomes == {Returns("r")}

Next ==
    \/ CallRequest(MaxFrames)
    \/ CallNotification(MaxFrames)
    \/ Cancel
    \/ Resume
    \/ DrainDone
    \/ ReceiveLine(Lines, MaxFrames)
    \/ StartTask
    \/ FinishImpl(ImplOutcomes)
    \/ TaskDone

Spec == Init /\ [][Next]_vars

(***************************************************************************)
(* SpecInbound: the receive side.  The peer sends lines of every kind, the *)
(* handlers end in every way, and close() may be called at any moment.     *)
(***************************************************************************)
MaxInboundFrames == 3

LinesInbound ==
    {Malformed, NonObject, EmptyObject,
     Request(AGENT_METHODS.session_prompt, 0, PValid),
     Request(<<"unknown/method">>, 1, PValid),
     Notification(AGENT_METHODS.session_cancel, PValid),
     Result(0, "a"),
     Error(0, to_error_obj(AuthRequired)),
     Obj(MNull, 0, Absent, Absent, NoError),
     Obj(MNull, NoId, Absent, Absent, NoError)}

InboundOutcomes ==
    {Returns("r"), RaisesRequestError(AuthRequired), RaisesException("boom")}

NextInbound ==
    \/ CallRequest(MaxInboundFrames)
    \/ CallNotification(MaxInboundFrames)
    \/ Cancel
    \/ Resume
    \/ DrainDone
    \/ ReceiveLine(LinesInbound, MaxInboundFrames)
    \/ ReceiveEOF
    \/ NotificationDone
    \/ StartTask
    \/ FinishImpl(InboundOutcomes)
    \/ TaskDone
    \/ Close

SpecInbound == Init /\ [][NextInbound]_vars

(***************************************************************************)
(* SpecLive: the event loop runs every task that can run.  A handler task  *)
(* that is ready is started, the implementation's method ends, and a       *)
(* drain() that is under way ends (the peer keeps reading).  The peer, the *)
(* callers of send_request and close() are under no obligation.            *)
(***************************************************************************)
MaxLiveFrames == 3

LinesLive ==
    {Request(AGENT_METHODS.session_prompt, 0, PValid),
     Request(AGENT_METHODS.session_prompt, 1, PValid),
     Request(<<"unknown/method">>, 2, PValid)}

LiveOutcomes == {Returns("r"), RaisesException("boom")}

TaskStartOf(i) == i \in DOMAIN task /\ TaskStart(i)

TaskImplFinishOf(i) ==
    i \in DOMAIN task /\ \E o \in LiveOutcomes : TaskImplFinish(i, o)

NextLive ==
    \/ CallRequest(MaxLiveFrames)
    \/ Cancel
    \/ DrainDone
    \/ ReceiveLine(LinesLive, MaxLiveFrames)
    \/ StartTask
    \/ FinishImpl(LiveOutcomes)
    \/ TaskDone
    \/ Close

FairLive ==
    /\ WF_vars(DrainDone)
    /\ \A i \in 1..MaxLiveFrames :
          WF_vars(TaskStartOf(i)) /\ WF_vars(TaskImplFinishOf(i))

SpecLive == Init /\ [][NextLive]_vars /\ FairLive

(***************************************************************************)
(* SpecDispatch: routing.  Either facade, with an implementation that      *)
(* defines every method or only the required ones, is sent requests and    *)
(* notifications for every wire name of both tables and for names of       *)
(* neither, with params that do and do not pass validation.                *)
(***************************************************************************)
MaxDispatchFrames == 2

AgentRequiredAttrs == {"initialize", "newSession", "prompt", "cancel"}
ClientRequiredAttrs == {"requestPermission", "sessionUpdate", "writeTextFile",
                        "readTextFile"}

InitDispatch ==
    /\ side \in {"agent", "client"}
    /\ has \in (IF side = "agent" THEN {AgentAttrs, AgentRequiredAttrs}
                ELSE {ClientAttrs, ClientRequiredAttrs})
    /\ InitConnection

DispatchMethods ==
    AgentWireNames \cup ClientWireNames \cup
        {<<"unknown/method">>, <<>>, MNumber, <<"_", "ext">>}

NotifiedMethods ==
    {AGENT_METHODS.session_cancel, CLIENT_METHODS.session_update,
     <<"unknown/method">>, <<"_", "ext">>}

LinesDispatch ==
    {Request(m, IF p = PValid THEN 0 ELSE 1, p) :
        m \in DispatchMethods, p \in {PValid, PInvalid, Null}}
    \cup {Notification(m, p) : m \in NotifiedMethods, p \in {PValid, PInvalid}}

NextDispatch ==
    \/ ReceiveLine(LinesDispatch, MaxDispatchFrames)
    \/ NotificationDone
    \/ StartTask
    \/ FinishImpl(InboundOutcomes)
    \/ DrainDone
    \/ TaskDone

SpecDispatch == InitDispatch /\ [][NextDispatch]_vars

(***************************************************************************)
(* SpecPeers: two connected peers.  The connection of the model is the     *)
(* calling side; the serving side is a Connection too, so the line it      *)
(* sends in answer to a request frame is the payload its _handle_request   *)
(* builds from the outcome of its handler, passed through the stream.      *)
(***************************************************************************)
MaxPeerFrames == 4

\* json.dumps, the stream and json.loads: the members of the object cross
\* the stream, the identity of the writing task does not.
Wire(frame) == [frame EXCEPT !.src = NoWriter]

ResourceNotFound ==
    RequestError(0 - 32002, "Resource not found", Data("uri", <<"file:///x">>))

PeerErrors ==
    {AuthRequired, ResourceNotFound, RequestError(0, "", Data("k", <<>>))}

PeerOutcomes ==
    {Returns("r"), RaisesException("boom")}
    \cup {RaisesRequestError(e) : e \in PeerErrors}

\* What the serving side writes for the request frame out[j] when its
\* handler ends with outcome o.
PeerResponse(j, o) == Wire(ResponsePayload(Wire(out[j]), o))

\* The serving side answers a request it has been sent, once.
PeerAnswers(n, O) ==
    /\ Budget(n)
    /\ \E j \in DOMAIN out : \E o \in O :
          /\ out[j].method # MAbsent /\ out[j].id # NoId
          /\ \A i \in DOMAIN inbox :
                inbox[i].method = MAbsent => inbox[i].id # out[j].id
          /\ Receive(PeerResponse(j, o))

NextPeers ==
    \/ CallRequest(MaxPeerFrames)
    \/ Cancel
    \/ Resume
    \/ DrainDone
    \/ PeerAnswers(MaxPeerFrames, PeerOutcomes)

SpecPeers == Init /\ [][NextPeers]_vars

(***************************************************************************)
(* SpecErrors: handlers that fail.  The handlers of the requests end in    *)
(* every way _handle_request tells apart, while other requests are in      *)
(* flight and calls of this side are outstanding.                          *)
(***************************************************************************)
MaxErrorFrames == 3

LinesErrors ==
    {Request(AGENT_METHODS.session_prompt, 0, PValid),
     Request(AGENT_METHODS.session_prompt, 1, PInvalid),
     Request(<<"unknown/method">>, 2, PValid),
     Result(0, "a")}

ExceptionTexts == {"boom", "{\"k\":1}", "null"}

ErrorOutcomes ==
    {Returns("r"), RaisesRequestError(AuthRequired),
     RaisesValidationError("PromptResponse")}
    \cup {RaisesException(text) : text \in ExceptionTexts}

NextErrors ==
    \/ CallRequest(MaxErrorFrames)
    \/ Resume
    \/ DrainDone
    \/ ReceiveLine(LinesErrors, MaxErrorFrames)
    \/ StartTask
    \/ FinishImpl(ErrorOutcomes)
    \/ TaskDone

SpecErrors == Init /\ [][NextErrors]_vars

(***************************************************************************)
(* SpecUpdates: session updates.  A client-side connection is sent         *)
(* session/update notifications, equal ones among them, and a permission   *)
(* request between them; the same connection sends notifications of its    *)
(* own one after another, each send awaited before the next, and a request *)
(* whose response it is sent.                                              *)
(***************************************************************************)
MaxUpdateFrames == 4

InitUpdates ==
    /\ side = "client"
    /\ has = ClientAttrs
    /\ InitConnection

LinesUpdates ==
    {Notification(CLIENT_METHODS.session_update, PUpdate1),
     Notification(CLIENT_METHODS.session_update, PUpdate2),
     Request(CLIENT_METHODS.session_request_permission, 0, PValid),
     Result(0, "a")}

\* await conn.send_notification("session/update", u), after every send made
\* before has returned
CallUpdate(n) ==
    /\ Budget(n)
    /\ \A k \in DOMAIN call :
          call[k].kind = "notification" => call[k].pc = "returned"
    /\ \E u \in {PUpdate1, PUpdate2} :
          send_notification(CLIENT_METHODS.session_update, u)

NextUpdates ==
    \/ CallUpdate(MaxUpdateFrames)
    \/ CallRequest(MaxUpdateFrames)
    \/ Resume
    \/ DrainDone
    \/ ReceiveLine(LinesUpdates, MaxUpdateFrames)
    \/ NotificationDone
    \/ StartTask
    \/ FinishImpl(ImplOutcomes)
    \/ TaskDone

SpecUpdates == InitUpdates /\ [][NextUpdates]_vars

(***************************************************************************)
(* SpecNested: handlers that call back.  While it serves a request, every  *)
(* handler sends a request of its own over the same connection and ends    *)
(* after the reply has come; the peer answers the requests it is sent.     *)
(* The event loop runs every task that can run.                            *)
(***************************************************************************)
MaxNestedRequests == 2

MaxNestedLines == 3 * MaxNestedRequests

LinesNested ==
    {Request(AGENT_METHODS.session_prompt, 0, PValid),
     Request(AGENT_METHODS.session_prompt, 1, PValid)}

\* The params of the request that the handler of line i sends.
NestedParams(i) == "<permission asked while serving line " \o ToString(i) \o ">"

\* The send_request call made by the handler of line i (0: none yet).
NestedCallOf(i) ==
    LET fs == {out[j] : j \in DOMAIN out}
              \cup {lock_waiters[n].frame : n \in DOMAIN lock_waiters}
        ks == {f.src[2] : f \in {g \in fs : g.src[1] = "call"
                                            /\ g.params = NestedParams(i)}}
    IN  IF ks = {} THEN 0 ELSE CHOOSE k \in ks : TRUE

OuterRequest ==
    /\ Cardinality(DOMAIN task) < MaxNestedRequests
    /\ \E line \in LinesNested : Receive(line)

\* The handler of line i calls conn.requestPermission(...)
NestedCallBy(i) ==
    /\ i \in DOMAIN task
    /\ task[i].pc = "impl"
    /\ NestedCallOf(i) = 0
    /\ send_request(CLIENT_METHODS.session_request_permission, NestedParams(i))

NestedCall == \E i \in 1..MaxNestedLines : NestedCallBy(i)

\* The handler of line i has got the reply to its request and returns.
NestedFinishOf(i) ==
    /\ i \in DOMAIN task
    /\ task[i].pc = "impl"
    /\ NestedCallOf(i) # 0
    /\ call[NestedCallOf(i)].pc \in {"returned", "raised"}
    /\ \E o \in ImplOutcomes : TaskImplFinish(i, o)

NestedFinish == \E i \in 1..MaxNestedLines : NestedFinishOf(i)

NestedReplies == {Returns("granted"), RaisesRequestError(AuthRequired)}

NestedPeerAnswers == PeerAnswers(MaxNestedLines + 1, NestedReplies)

NextNested ==
    \/ OuterRequest
    \/ StartTask
    \/ NestedCall
    \/ NestedPeerAnswers
    \/ Resume
    \/ NestedFinish
    \/ DrainDone
    \/ TaskDone

FairNested ==
    /\ WF_vars(DrainDone)
    /\ WF_vars(NestedPeerAnswers)
    /\ WF_vars(Resume)
    /\ \A i \in 1..MaxNestedLines :
          /\ WF_vars(TaskStartOf(i))
          /\ WF_vars(NestedCallBy(i))
          /\ WF_vars(NestedFinishOf(i))

SpecNested == Init /\ [][NextNested]_vars /\ FairNested

(***************************************************************************)
(* SpecOptional: handlers that return nothing.  Either facade, with every  *)
(* method defined, is sent requests whose handlers return a value or None. *)
(***************************************************************************)
MaxOptionalFrames == 2

\* The methods whose response may carry no data.
NoDataMethods ==
    {AGENT_METHODS.session_load, AGENT_METHODS.session_set_mode,
     AGENT_METHODS.session_set_model, AGENT_METHODS.authenticate,
     CLIENT_METHODS.fs_write_text_file, CLIENT_METHODS.terminal_release,
     CLIENT_METHODS.terminal_kill}

InitOptional ==
    /\ side \in {"agent", "client"}
    /\ has = (IF side = "agent" THEN AgentAttrs ELSE ClientAttrs)
    /\ InitConnection

LinesOptional ==
    {Request(m, 0, PValid) :
        m \in NoDataMethods \cup {AGENT_METHODS.session_prompt,
                                  CLIENT_METHODS.fs_read_text_file}}

OptionalOutcomes == {Returns("r"), Returns(Null)}

NextOptional ==
    \/ ReceiveLine(LinesOptional, MaxOptionalFrames)
    \/ StartTask
    \/ FinishImpl(OptionalOutcomes)
    \/ DrainDone
    \/ TaskDone

SpecOptional == InitOptional /\ [][NextOptional]_vars

(***************************************************************************)
(* SpecExt: extension methods.  Either facade, whose implementation has    *)
(* the two extension hooks or neither, calls extMethod / extNotification   *)
(* and is sent the frames that the same calls of its peer's facade write;  *)
(* the peer, whose implementation has the hooks, answers with what its     *)
(* extMethod hook returns.                                                 *)
(***************************************************************************)
MaxExtFrames == 2

ExtHooks == {"extMethod", "extNotification"}

InitExt ==
    /\ side \in {"agent", "client"}
    /\ has \in (IF side = "agent" THEN {AgentAttrs, AgentAttrs \ ExtHooks}
                ELSE {ClientAttrs, ClientAttrs \ ExtHooks})
    /\ InitConnection

\* Extension names: plain, beginning with an underscore themselves, empty.
ExtNames == {<<"ext">>, <<"_", "x">>, <<>>}

\* The params of an extension call: an object, the empty object, None.
ExtParams == {PValid, EmptyObj, Null}

\* f"_{method}"
ExtWireName(name) == <<"_">> \o name

\* AgentSideConnection.extMethod / ClientSideConnection.extMethod
extMethod(name, params) == send_request(ExtWireName(name), params)

\* AgentSideConnection.extNotification / ClientSideConnection.extNotification
extNotification(name, params) == send_notification(ExtWireName(name), params)

CallExtMethod(n) ==
    /\ Budget(n)
    /\ \E name \in ExtNames : \E params \in ExtParams : extMethod(name, params)

CallExtNotification(n) ==
    /\ Budget(n)
    /\ \E name \in ExtNames : \E params \in ExtParams :
          extNotification(name, params)

\* The frames that the peer's extMethod / extNotification calls write.
LinesExt ==
    {Request(ExtWireName(name), 0, params) :
        name \in ExtNames, params \in ExtParams}
    \cup {Notification(ExtWireName(name), params) :
            name \in ExtNames, params \in ExtParams}

\* What the extension hook returns.
ExtReturns == {"r", Null}

ExtOutcomes == {Returns(v) : v \in ExtReturns}

\* The peer is the facade of the other side, over an implementation that
\* defines every method.
PeerSide == IF side = "agent" THEN "client" ELSE "agent"
PeerHas == IF side = "agent" THEN ClientAttrs ELSE AgentAttrs

\* What the peer's handler decides for the frame f it has read.
PeerPlan(f) == handler(PeerSide, PeerHas, f.method, GetParams(f), FALSE)

\* The line the peer writes for the request out[j] when the hook it calls
\* returns v.
PeerExtResponse(j, v) ==
    Wire(ResponsePayload(Wire(out[j]),
                         RoutedOutcome(PeerPlan(Wire(out[j])), Returns(v))))

PeerExtAnswers(n) ==
    /\ Budget(n)
    /\ \E j \in DOMAIN out : \E v \in ExtReturns :
          /\ out[j].method # MAbsent /\ out[j].id # NoId
          /\ PeerPlan(Wire(out[j])).act = "call"
          /\ \A i \in DOMAIN inbox :
                inbox[i].method = MAbsent => inbox[i].id # out[j].id
          /\ Receive(PeerExtResponse(j, v))

NextExt ==
    \/ CallExtMethod(MaxExtFrames)
    \/ CallExtNotification(MaxExtFrames)
    \/ PeerExtAnswers(MaxExtFrames)
    \/ Resume
    \/ DrainDone
    \/ ReceiveLine(LinesExt, MaxExtFrames)
    \/ NotificationDone
    \/ StartTask
    \/ FinishImpl(ExtOutcomes)
    \/ TaskDone

SpecExt == InitExt /\ [][NextExt]_vars

(***************************************************************************)
(* SpecClose: shutdown.  close() is called at any moment, with requests in *)
(* flight in both directions, and called again after it has returned.  The *)
(* event loop runs close() on when what it awaits is done, and runs the    *)
(* done callbacks of the tasks that have ended.                            *)
(***************************************************************************)
MaxCloseFrames == 3

MaxCloseCalls == 2

LinesClose ==
    {Request(AGENT_METHODS.session_prompt, 0, PValid),
     Request(<<"unknown/method">>, 1, PValid),
     Notification(AGENT_METHODS.session_cancel, PValid),
     Result(0, "a")}

NextClose ==
    \/ CallRequest(MaxCloseFrames)
    \/ Resume
    \/ DrainDone
    \/ ReceiveLine(LinesClose, MaxCloseFrames)
    \/ ReceiveEOF
    \/ NotificationDone
    \/ StartTask
    \/ FinishImpl(ImplOutcomes)
    \/ TaskDone
    \/ Close
    \/ CloseAgain(MaxCloseCalls)

FairClose ==
    /\ WF_vars(CloseCancelTasks)
    /\ WF_vars(CloseReturn)
    /\ WF_vars(TaskDone)

SpecClose == Init /\ [][NextClose]_vars /\ FairClose

(***************************************************************************)
(* SpecLimit: a stream with a per-line byte limit.  The peer sends lines   *)
(* that are shorter than the limit, as long as the limit, and one byte     *)
(* longer.                                                                 *)
(***************************************************************************)
MaxLimitFrames == 3

LineSizes == {StdioLimit - 1, StdioLimit, StdioLimit + 1}

LinesLimit ==
    {Request(AGENT_METHODS.session_prompt, 0, PValid),
     Notification(AGENT_METHODS.session_cancel, PValid),
     Result(0, "a")}

ReceiveSizedLine(n) ==
    /\ Budget(n)
    /\ \E line \in LinesLimit : \E size \in LineSizes : ReceiveSized(line, size)

NextLimit ==
    \/ CallRequest(MaxLimitFrames)
    \/ Resume
    \/ DrainDone
    \/ ReceiveSizedLine(MaxLimitFrames)
    \/ NotificationDone
    \/ StartTask
    \/ FinishImpl(ImplOutcomes)
    \/ TaskDone

SpecLimit == Init /\ [][NextLimit]_vars

(***************************************************************************)
(* SpecGolden: the schema round trip.  A schema model is a set of fields,  *)
(* each with its internal name, its wire alias, whether it is required,    *)
(* and its default; a wire value is a function from wire names to values.  *)
(* Every value of the golden corpus is validated into its model and the    *)
(* model is dumped again (tests/test_golden.py).                           *)
(***************************************************************************)
SchemaField(name, alias, required, default) ==
    [name |-> name, alias |-> alias, required |-> required, default |-> default]

DefaultCapabilities == "{\"fs\":{},\"terminal\":false}"

\* Two of the schema models: one with optional fields that default to None,
\* one with an optional field that has a default of its own.
SchemaModels ==
    [ReadTextFileRequest |->
        {SchemaField("session_id", "sessionId", TRUE, Null),
         SchemaField("path", "path", TRUE, Null),
         SchemaField("line", "line", FALSE, Null),
         SchemaField("limit", "limit", FALSE, Null),
         SchemaField("field_meta", "_meta", FALSE, Null)},
     InitializeRequest |->
        {SchemaField("protocol_version", "protocolVersion", TRUE, Null),
         SchemaField("client_capabilities", "clientCapabilities", FALSE,
                     DefaultCapabilities),
         SchemaField("field_meta", "_meta", FALSE, Null)}]

FieldNames(M) == {f.name : f \in SchemaModels[M]}
FieldOf(M, name) == CHOOSE f \in SchemaModels[M] : f.name = name
FieldOfAlias(M, alias) == CHOOSE f \in SchemaModels[M] : f.alias = alias

\* The values a member of a golden file has: never null.
GoldenMemberValues(f) ==
    IF f.name \in {"path", "line", "protocol_version"} THEN {"1", "2"}
    ELSE IF f.name = "client_capabilities"
    THEN {DefaultCapabilities, "{\"terminal\":true}"}
    ELSE {"x"}

\* The golden values of a model: wire objects with every required member,
\* any of the optional ones, and no others.
GoldenValues(M) ==
    LET required == {f.alias : f \in {g \in SchemaModels[M] : g.required}}
        optional == {f.alias : f \in {g \in SchemaModels[M] : ~g.required}}
        values == UNION {GoldenMemberValues(f) : f \in SchemaModels[M]}
    IN  UNION {{raw \in [required \cup K -> values] :
                   \A a \in DOMAIN raw :
                       raw[a] \in GoldenMemberValues(FieldOfAlias(M, a))} :
               K \in SUBSET optional}

\* model_cls.model_validate(raw): the members are stored under the internal
\* names of their fields, a field without member holds its default, and the
\* model remembers which fields were set.
model_cls_validate(M, raw) ==
    [fields |-> [n \in FieldNames(M) |->
                    IF FieldOf(M, n).alias \in DOMAIN raw
                    THEN raw[FieldOf(M, n).alias]
                    ELSE FieldOf(M, n).default],
     fields_set |-> {n \in FieldNames(M) : FieldOf(M, n).alias \in DOMAIN raw}]

\* A faulty _dump_model that dumps under the internal field names
\* (by_alias left out).
_dump_model_by_name(M, model) ==
    LET kept == {n \in model.fields_set : model.fields[n] # Null}
    IN  [n \in kept |-> model.fields[n]]

\* _dump_model: model_dump(mode="json", by_alias=True, exclude_none=True,
\* exclude_unset=True)
_dump_model(M, model) ==
    LET kept == {n \in model.fields_set : model.fields[n] # Null}
    IN  [a \in {FieldOf(M, n).alias : n \in kept} |->
            model.fields[FieldOfAlias(M, a).name]]

GoldenCase(M, raw) == [stage |-> "loaded", model_cls |-> M, raw |-> raw]

InitGolden ==
    /\ side = "agent"
    /\ has = AgentAttrs
    /\ next_request_id = 0
    /\ pending = <<>>
    /\ inflight = {}
    /\ lock_owner = NoWriter
    /\ lock_waiters = <<>>
    /\ out = <<>>
    /\ inbox = <<>>
    /\ recv = "reading"
    /\ task = <<>>
    /\ call = <<>>
    /\ closing = [st |-> "no", wait |-> {}, calls |-> 0]
    /\ invoked = <<>>
    /\ flush_failed = {}
    /\ \E M \in DOMAIN SchemaModels : \E raw \in GoldenValues(M) :
          golden = GoldenCase(M, raw)

\* model = model_cls.model_validate(raw)
GoldenValidate ==
    /\ golden.stage = "loaded"
    /\ golden' = [stage |-> "validated", model_cls |-> golden.model_cls,
                  raw |-> golden.raw,
                  model |-> model_cls_validate(golden.model_cls, golden.raw)]
    /\ UNCHANGED <<flush_failed, side, has, next_request_id, pending, inflight, lock_owner,
                   lock_waiters, out, inbox, recv, task, call, closing, invoked>>

\* _dump_model(model), to be compared with raw
GoldenDump ==
    /\ golden.stage = "validated"
    /\ golden' = [stage |-> "dumped", model_cls |-> golden.model_cls,
                  raw |-> golden.raw, model |-> golden.model,
                  dumped |-> _dump_model(golden.model_cls, golden.model)]
    /\ UNCHANGED <<flush_failed, side, has, next_request_id, pending, inflight, lock_owner,
                   lock_waiters, out, inbox, recv, task, call, closing, invoked>>

NextGolden ==
    \/ GoldenValidate
    \/ GoldenDump

SpecGolden == InitGolden /\ [][NextGolden]_vars

(***************************************************************************)
(* SpecServe: the scheduling of SpecLive without its obligations towards   *)
(* the handler tasks.  Only a drain() that is under way ends; which        *)
(* handler tasks make progress is an assumption of the property checked.   *)
(***************************************************************************)
FairServe == WF_vars(DrainDone)

SpecServe == Init /\ [][NextLive]_vars /\ FairServe

(***************************************************************************)
(* SpecExit: the receive loop ends while calls are outstanding.  The       *)
(* stream ends or breaks at any point; callers can be cancelled.           *)
(***************************************************************************)
MaxExitFrames == 3

NextExit ==
    \/ CallRequest(MaxExitFrames)
    \/ Cancel
    \/ Resume
    \/ DrainDone
    \/ ReceiveLine(LinesLimit, MaxExitFrames)
    \/ ReceiveEOF
    \/ ReceiveFails
    \/ NotificationDone
    \/ StartTask
    \/ FinishImpl(ImplOutcomes)
    \/ TaskDone

SpecExit == Init /\ [][NextExit]_vars

(***************************************************************************)
(* SpecWrite: the output stream is closed or broken.  A drain() under way  *)
(* returns or fails; the peer's lines can still arrive.                    *)
(***************************************************************************)
MaxWriteFrames == 3

DrainFailure == \E exc \in SuppressedByDrain : DrainFails(exc)

NextWrite ==
    \/ CallRequest(MaxWriteFrames)
    \/ CallNotification(MaxWriteFrames)
    \/ Resume
    \/ DrainDone
    \/ DrainFailure
    \/ ReceiveLine(LinesLimit, MaxWriteFrames)
    \/ NotificationDone
    \/ StartTask
    \/ FinishImpl(ImplOutcomes)
    \/ TaskDone

SpecWrite == Init /\ [][NextWrite]_vars

(***************************************************************************)
(* SpecNotify: handlers that call back.  The handler of a notification or  *)
(* of a request may send a request of its own on the same connection and   *)
(* await the reply before it returns; the peer answers what it is sent.    *)
(***************************************************************************)
MaxNotifyFrames == 5

LinesNotify ==
    {Notification(AGENT_METHODS.session_cancel, PValid),
     Request(AGENT_METHODS.session_prompt, 0, PValid)}

\* The handler of the notification of line i, which the receive loop awaits,
\* calls conn.requestPermission(...)
NotifyCallBy(i) ==
    /\ recv = "notification"
    /\ i = Len(inbox)
    /\ NestedCallOf(i) = 0
    /\ Budget(MaxNotifyFrames)
    /\ send_request(CLIENT_METHODS.session_request_permission, NestedParams(i))

NotifyCall == \E i \in 1..MaxNotifyFrames : NotifyCallBy(i)

\* The handler of a notification returns: it made no call, or it has got
\* the reply to the request it sent.
NotifyReturn ==
    /\ recv = "notification"
    /\ IF NestedCallOf(Len(inbox)) = 0 THEN TRUE
       ELSE call[NestedCallOf(Len(inbox))].pc \in {"returned", "raised"}
    /\ NotificationDone

NotifyNestedCall ==
    \E i \in 1..MaxNotifyFrames : Budget(MaxNotifyFrames) /\ NestedCallBy(i)

NotifyNestedFinish == \E i \in 1..MaxNotifyFrames : NestedFinishOf(i)

NextNotify ==
    \/ ReceiveLine(LinesNotify, MaxNotifyFrames)
    \/ StartTask
    \/ NotifyCall
    \/ NotifyNestedCall
    \/ PeerAnswers(MaxNotifyFrames, NestedReplies)
    \/ Resume
    \/ NotifyReturn
    \/ NotifyNestedFinish
    \/ DrainDone
    \/ TaskDone

SpecNotify == Init /\ [][NextNotify]_vars

(***************************************************************************)
(* SpecResponses: the shapes of a response.  The peer answers the calls    *)
(* with frames that carry a result, an error, both or neither, the error   *)
(* object whole, in part, empty or null.                                   *)
(***************************************************************************)
MaxResponseFrames == 4

LinesResponses ==
    {Result(0, "a"),
     Result(1, Null),
     [Result(0, "a") EXCEPT !.error = to_error_obj(AuthRequired)],
     Error(0, to_error_obj(ResourceNotFound)),
     Error(1, ErrorObj(7, Absent, AbsentData)),
     Error(1, ErrorObj(NoCode, "m", NullData)),
     Error(0, EmptyError),
     Error(1, NullError),
     Obj(MAbsent, 0, Absent, Absent, NoError)}

NextResponses ==
    \/ CallRequest(MaxResponseFrames)
    \/ Cancel
    \/ Resume
    \/ DrainDone
    \/ ReceiveLine(LinesResponses, MaxResponseFrames)

SpecResponses == Init /\ [][NextResponses]_vars

(***************************************************************************)
(* Claims about outbound calls (checked under Spec).                       *)
(***************************************************************************)
RequestCalls == {k \in DOMAIN call : call[k].kind = "request"}

\* The request frames among the first n frames written, in order.
RequestFramesOf(n) ==
    SelectSeq(SubSeq(out, 1, n), LAMBDA f : f.method # MAbsent /\ f.id # NoId)

\* The lines read that are handled as responses with this id.
ResponsesTo(id) ==
    {i \in DOMAIN inbox :
        /\ inbox[i].json = "object"
        /\ GetMethod(inbox[i].method) = MNull
        /\ inbox[i].id = id}

\* C1: no two send_request calls get the same request id: the k-th call
\* (k = 0, 1, ...) gets id k, whether or not earlier callers were cancelled,
\* and next_request_id never decreases.
RequestIdsInOrder ==
    /\ \A k \in RequestCalls :
          call[k].id = Cardinality({j \in RequestCalls : j < k})
    /\ \A j, k \in RequestCalls : j # k => call[j].id # call[k].id

C1_RequestIdsUnique ==
    /\ RequestIdsInOrder
    /\ [][RequestIdsInOrder' /\ next_request_id' >= next_request_id]_vars

\* C1 witness: a request is made after the caller of an earlier one was cancelled.
C1_Witness ==
    \E j, k \in RequestCalls :
        j < k /\ call[j].pc = "cancelled" /\ call[k].id = call[j].id + 1

\* C2: in every prefix of the frames written, the ids carried by the
\* request frames are exactly {0, ..., n-1} for some n.
C2_RequestIdsContiguous ==
    \A n \in 0..Len(out) :
        LET reqs == RequestFramesOf(n)
        IN  {reqs[j].id : j \in DOMAIN reqs} = 0..(Len(reqs) - 1)

\* C3: a call whose future holds a result holds the result of a response
\* frame that carries the call's own request id, whatever the order in
\* which the responses to the outstanding calls arrive.
C3_OwnResponse ==
    \A k \in RequestCalls :
        call[k].fut.st = "result" =>
            \E i \in ResponsesTo(call[k].id) :
                call[k].fut.val =
                    IF HasResult(inbox[i]) THEN inbox[i].result ELSE Null

\* C3 witness: two calls were outstanding together, the responses came in
\* the reverse order, and both calls have returned.
C3_Witness ==
    /\ Len(call) >= 2 /\ Len(inbox) >= 2
    /\ call[1].kind = "request" /\ call[2].kind = "request"
    /\ call[1].pc = "returned" /\ call[2].pc = "returned"
    /\ inbox[1] = Result(1, "b") /\ inbox[2] = Result(0, "a")

\* C4: an entry of the pending table is settled at most once and leaves the
\* table when it is settled; a response frame whose id belongs to a settled
\* call changes nothing.
Settled(k) == call[k].fut.st \in {"result", "error"}

PendingUnsettled == \A id \in DOMAIN pending : ~Settled(pending[id])

SettledStays == \A k \in DOMAIN call : Settled(k) => call'[k].fut = call[k].fut

LaterResponseIgnored ==
    \A line \in Lines :
        /\ inbox' = Append(inbox, line)
        /\ GetMethod(line.method) = MNull
        /\ \E k \in RequestCalls : call[k].id = line.id /\ Settled(k)
        => UNCHANGED <<next_request_id, pending, inflight, lock_owner,
                       lock_waiters, out, recv, task, call, invoked>>

C4_SettledOnce ==
    /\ PendingUnsettled
    /\ [][PendingUnsettled' /\ SettledStays /\ LaterResponseIgnored]_vars

\* C4 witness: a second response with the id of a settled call has been read.
C4_Witness ==
    /\ Len(inbox) >= 2 /\ Len(call) >= 1
    /\ inbox[1] = Result(0, "a") /\ inbox[2] = Result(0, "b")
    /\ call[1].fut = [st |-> "result", val |-> "a", err |-> NoException]
    /\ recv = "reading"

(***************************************************************************)
(* Claims about inbound frames (checked under SpecInbound).                *)
(***************************************************************************)
\* A JSON object "has" a member when the key is in it.
IsRequestFrame(f) == f.method # MAbsent /\ f.id # NoId
IsNotificationFrame(f) == f.method # MAbsent /\ f.id = NoId
IsResponseFrame(f) == f.method = MAbsent /\ f.id # NoId

\* The step reads `line` as the next line of the stream.
Reads(line) == recv = "reading" /\ inbox' = Append(inbox, line)

NothingButInbox ==
    UNCHANGED <<next_request_id, pending, inflight, lock_owner, lock_waiters,
                out, recv, task, call, closing, invoked>>

\* What the step that reads the object `line` must do, by the one rule that
\* fits the object.
ClassifiedByRule(line) ==
    LET i == Len(inbox) + 1
    IN  IF IsRequestFrame(line)
        THEN /\ i \in DOMAIN task' /\ i \in inflight'
             /\ UNCHANGED <<pending, call, invoked, recv>>
        ELSE IF IsNotificationFrame(line)
        THEN /\ UNCHANGED <<pending, call, task, inflight>>
             /\ handler(side, has, line.method, GetParams(line), TRUE).act = "call"
                    => Len(invoked') = Len(invoked) + 1 /\ recv' = "notification"
        ELSE IF IsResponseFrame(line)
        THEN /\ UNCHANGED <<task, inflight, invoked>>
             /\ line.id \notin DOMAIN pending'
             /\ \A id \in DOMAIN pending \ {line.id} :
                    id \in DOMAIN pending' /\ pending'[id] = pending[id]
             /\ \A k \in DOMAIN call :
                    (line.id \notin DOMAIN pending \/ pending[line.id] # k)
                        => call'[k] = call[k]
        ELSE NothingButInbox

\* C5: every inbound JSON object is handled by exactly the rule its members
\* select: method and id - a new handler task; method, no id - the handler
\* inline; id, no method - the pending table; neither - ignored.
C5_ClassifiedByOneRule ==
    [][\A line \in LinesInbound :
          Reads(line) /\ line.json = "object" => ClassifiedByRule(line)]_vars

\* C6: a line that is not JSON, or an object with neither a method nor an
\* id, writes no frame, invokes nothing, leaves the pending table, the
\* in-flight set, the tasks and the calls as they are, and the receive
\* loop goes on to read the next line.
Skipped(line) ==
    \/ line.json = "invalid"
    \/ line.json = "object" /\ GetMethod(line.method) = MNull /\ line.id = NoId

C6_SkippedLines ==
    [][\A line \in LinesInbound :
          Reads(line) /\ Skipped(line) => NothingButInbox /\ recv' = "reading"]_vars

\* C6 witness: a request read after a malformed line and an empty object
\* has got its handler task.
C6_Witness ==
    /\ Len(inbox) = 3
    /\ inbox[1] = Malformed /\ inbox[2] = EmptyObject
    /\ 3 \in DOMAIN task /\ task[3].pc = "done"

\* The frames written by the handler task of the request read as line i.
ResponsesOf(i) == {j \in DOMAIN out : out[j].src = <<"task", i>>}

\* C7: for every inbound request at most one response frame is written; it
\* carries the id of the request and exactly one of result and error.
C7_OneResponse ==
    \A i \in DOMAIN task :
        /\ Cardinality(ResponsesOf(i)) <= 1
        /\ \A j \in ResponsesOf(i) :
              /\ out[j].method = MAbsent
              /\ out[j].id = inbox[i].id
              /\ HasResult(out[j]) # HasError(out[j])

\* C7 witness: one request was answered with a result, another with an error.
C7_Witness ==
    \E i1, i2 \in DOMAIN task :
        /\ \E j \in ResponsesOf(i1) : HasResult(out[j])
        /\ \E j \in ResponsesOf(i2) : HasError(out[j])

(***************************************************************************)
(* Liveness of the responses (checked under SpecLive).                     *)
(***************************************************************************)
\* C8: every inbound request whose handler returns or raises is eventually
\* answered with a response frame, unless close() is called, whatever else
\* is in flight and in whatever order the handlers end.
C8_EventuallyAnswered ==
    \A i \in 1..MaxLiveFrames :
        (i \in DOMAIN task) ~> (ResponsesOf(i) # {} \/ closing.st # "no")

\* C8 witness: two requests were in flight together and the later one was
\* answered first, while a caller of send_request held the write lock before.
C8_Witness ==
    /\ closing.st = "no"
    /\ {1, 2} \subseteq DOMAIN task
    /\ \E j1, j2 \in DOMAIN out :
          j1 < j2 /\ out[j1].src = <<"task", 2>> /\ out[j2].src = <<"task", 1>>

(***************************************************************************)
(* Claims about routing (checked under SpecDispatch).                      *)
(***************************************************************************)
InvokedFor(i) == {n \in DOMAIN invoked : invoked[n].src = i}

\* The handler task of line i ended without calling the implementation,
\* and what it wrote, once it has written, is one error response with the
\* id of the request, this code and data with this member.
AnsweredWithError(i, code, key) ==
    /\ task[i].pc # "impl"
    /\ InvokedFor(i) = {}
    /\ task[i].pc \in {"drain", "done"} => ResponsesOf(i) # {}
    /\ \A j \in ResponsesOf(i) :
          /\ out[j].id = inbox[i].id
          /\ ~HasResult(out[j])
          /\ out[j].error.k = "object"
          /\ out[j].error.code = code
          /\ out[j].error.data.k = key

UnknownMethod(m) ==
    m \notin AgentWireNames \cup ClientWireNames /\ ~StartsWithUnderscore(m)

\* C9: a request whose method is in neither routing table and does not
\* begin with an underscore is answered with error -32601 whose data is
\* {"method": <the name as received>}, under the id of the request, and no
\* method of the implementation is invoked for it.
C9_MethodNotFound ==
    \A i \in DOMAIN task :
        UnknownMethod(inbox[i].method) =>
            /\ AnsweredWithError(i, 0 - 32601, "method")
            /\ \A j \in ResponsesOf(i) :
                  out[j].error.data = Data("method", inbox[i].method)

\* C9 witness: requests for an unknown name and for a method that is no
\* string have both been answered.
C9_Witness ==
    /\ Len(inbox) = 2
    /\ inbox[1].method = <<"unknown/method">> /\ inbox[2].method = MNumber
    /\ ResponsesOf(1) # {} /\ ResponsesOf(2) # {}

KnownMethod(m) ==
    m \in (IF side = "agent" THEN AgentWireNames ELSE ClientWireNames)

FailsValidation(message) == ~model_validate("", GetParams(message))

\* C10 as stated: a request for a known method whose params fail validation
\* is answered with error -32602 with data.errors, and the implementation
\* is not invoked.
C10_InvalidParams ==
    \A i \in DOMAIN task :
        KnownMethod(inbox[i].method) /\ FailsValidation(inbox[i]) =>
            AnsweredWithError(i, 0 - 32602, "errors")

\* The attribute of the implementation that an optional method needs.
OptionalAttr ==
    (AGENT_METHODS.session_load :> "loadSession")
    @@ (AGENT_METHODS.session_set_mode :> "setSessionMode")
    @@ (AGENT_METHODS.session_set_model :> "setSessionModel")
    @@ (AGENT_METHODS.authenticate :> "authenticate")
    @@ (CLIENT_METHODS.terminal_create :> "createTerminal")
    @@ (CLIENT_METHODS.terminal_output :> "terminalOutput")
    @@ (CLIENT_METHODS.terminal_release :> "releaseTerminal")
    @@ (CLIENT_METHODS.terminal_wait_for_exit :> "waitForTerminalExit")
    @@ (CLIENT_METHODS.terminal_kill :> "killTerminal")

HandlerDefined(m) == m \in DOMAIN OptionalAttr => OptionalAttr[m] \in has

\* C10, amended: a request for a known method that the implementation has
\* a handler for (a required method, or an optional one it defines) and
\* whose params fail validation is answered with error -32602 with
\* data.errors, and the implementation is not invoked.
C10_InvalidParamsOfDefined ==
    \A i \in DOMAIN task :
        /\ KnownMethod(inbox[i].method)
        /\ HandlerDefined(inbox[i].method)
        /\ FailsValidation(inbox[i])
        => AnsweredWithError(i, 0 - 32602, "errors")

\* C10 witness: an optional method the implementation defines and a
\* required one, both sent invalid params, have been answered.
C10_Witness ==
    /\ Len(inbox) = 2
    /\ inbox[1] = Request(AGENT_METHODS.session_load, 1, PInvalid)
    /\ inbox[2] = Request(AGENT_METHODS.initialize, 1, Null)
    /\ side = "agent" /\ "loadSession" \in has
    /\ task[1].pc = "done" /\ task[2].pc = "done"

(***************************************************************************)
(* Claims about two connected peers (checked under SpecPeers).             *)
(***************************************************************************)
\* C11: when the handler of the serving side raises RequestError e for a
\* request, the future of the send_request call that sent the request is
\* settled with a RequestError of the same code, message and data and with
\* no result, and the call raises it.
RaisesWhatFutureHolds ==
    \A k \in RequestCalls :
        /\ call[k].pc = "raised" => call[k].fut.st = "error"
        /\ call[k].pc = "returned" => call[k].fut.st = "result"

C11_ErrorRoundTrip ==
    /\ RaisesWhatFutureHolds
    /\ [][/\ RaisesWhatFutureHolds'
          /\ \A j \in DOMAIN out : \A e \in PeerErrors : \A k \in RequestCalls :
                /\ Reads(PeerResponse(j, RaisesRequestError(e)))
                /\ out[j].src = <<"call", k>>
                /\ call[k].fut.st = "pending"
                => call'[k].fut = [st |-> "error", val |-> Null, err |-> e]]_vars

\* C11 witness: two calls have raised the errors the serving side raised,
\* one with data and one without.
C11_Witness ==
    \E j, k \in RequestCalls :
        /\ call[j].pc = "raised" /\ call[j].fut.err = ResourceNotFound
        /\ call[k].pc = "raised" /\ call[k].fut.err = AuthRequired

(***************************************************************************)
(* Claims about failing handlers (checked under SpecErrors).               *)
(***************************************************************************)
\* The response frames of the handler task of line i, written or waiting
\* for the write lock.
FramesOf(i) ==
    {out[j] : j \in ResponsesOf(i)}
    \cup {lock_waiters[n].frame :
            n \in {m \in DOMAIN lock_waiters : lock_waiters[m].w = <<"task", i>>}}

\* C12: when the handler raises an exception that is neither a RequestError
\* nor a validation error, the response is an error with code -32603 whose
\* data is the parsed value of the exception's text when the text is JSON,
\* and {"details": <text>} otherwise.
C12_InternalError ==
    [][\A i \in DOMAIN task : \A text \in ExceptionTexts :
          TaskImplFinish(i, RaisesException(text)) =>
              /\ FramesOf(i)' # {}
              /\ \A f \in FramesOf(i)' :
                    /\ f.id = inbox[i].id
                    /\ ~HasResult(f)
                    /\ f.error.code = 0 - 32603
                    /\ f.error.data =
                          IF text = "boom" THEN Data("details", <<text>>)
                          ELSE json_loads(text)]_vars

\* C12 witness: responses built from a text that is JSON and from one that
\* is not have both been written.
C12_Witness ==
    \E j1, j2 \in DOMAIN out :
        /\ out[j1].error.data = Data("details", <<"boom">>)
        /\ out[j2].error.data = json_loads("{\"k\":1}")

\* The handler task of line i fails in this step: the router raises before
\* it calls the implementation, or the implementation's method raises.
HandlerFails(i) ==
    \/ /\ TaskStart(i)
       /\ handler(side, has, inbox[i].method, GetParams(inbox[i]), FALSE).act
              \in {"raise", "invalid"}
    \/ \E o \in ErrorOutcomes \ {Returns("r")} : TaskImplFinish(i, o)

\* C13: the failure of one request handler touches only that request: the
\* receive loop keeps running, no other handler task is cancelled or
\* changed, the pending table and the outstanding calls stay as they are,
\* and the failing request gets its error response.
C13_FailureIsLocal ==
    [][\A i \in DOMAIN task :
          HandlerFails(i) =>
              /\ recv' = recv /\ recv' # "crashed"
              /\ UNCHANGED <<pending, inflight, call, next_request_id, closing>>
              /\ \A j \in DOMAIN task \ {i} : task'[j] = task[j]
              /\ task'[i].pc \in {"lock", "drain"}
              /\ \A f \in FramesOf(i)' : HasError(f) /\ f.id = inbox[i].id]_vars

\* C13 witness: after the handler of the first request failed, with a call
\* of this side outstanding, a request received later was answered with a
\* result and the call is still pending.
C13_Witness ==
    /\ Len(inbox) = 2 /\ Len(call) = 1
    /\ \E j1 \in ResponsesOf(1) : \E j2 \in ResponsesOf(2) :
          j1 < j2 /\ HasError(out[j1]) /\ HasResult(out[j2])
    /\ call[1].pc = "await" /\ call[1].id \in DOMAIN pending

(***************************************************************************)
(* Claims about notifications (checked under SpecDispatch).                *)
(***************************************************************************)
\* The line is handled as a notification.
IsHandledAsNotification(line) ==
    line.json = "object" /\ GetMethod(line.method) # MNull /\ line.id = NoId

NoFrameWritten == UNCHANGED <<out, lock_owner, lock_waiters>>

\* C14: an inbound notification never makes the connection write a frame,
\* whether its handler returns, raises, fails validation or does not know
\* the method: every frame written answers a line that carries an id; and
\* when the handler has ended, the receive loop reads on.
OnlyRequestsAnswered ==
    \A j \in DOMAIN out :
        out[j].src[1] = "task" /\ inbox[out[j].src[2]].id # NoId

C14_NotificationsSilent ==
    /\ OnlyRequestsAnswered
    /\ [][/\ OnlyRequestsAnswered'
          /\ \A line \in LinesDispatch :
               Reads(line) /\ IsHandledAsNotification(line) =>
                   /\ NoFrameWritten
                   /\ UNCHANGED <<task, inflight, pending>>
                   /\ recv' \in {"reading", "notification"}
          /\ recv = "notification" /\ recv' # recv =>
                 NoFrameWritten /\ recv' = "reading"]_vars

\* C14 witness: after a notification whose params fail validation nothing
\* was written, and the request that followed was answered.
C14_Witness ==
    /\ Len(inbox) = 2 /\ Len(out) = 1
    /\ inbox[1] = Notification(AGENT_METHODS.session_cancel, PInvalid)
    /\ side = "agent"
    /\ ResponsesOf(2) # {}

(***************************************************************************)
(* Claims about session updates (checked under SpecUpdates).               *)
(***************************************************************************)
IsUpdate(f) == f.method = CLIENT_METHODS.session_update /\ f.id = NoId

\* The params of the session/update frames of a sequence of frames, in order.
RECURSIVE UpdatesIn(_)
UpdatesIn(fs) ==
    IF fs = <<>> THEN <<>>
    ELSE (IF IsUpdate(Head(fs)) THEN <<Head(fs).params>> ELSE <<>>)
         \o UpdatesIn(Tail(fs))

RECURSIVE ArgsOf(_, _)
ArgsOf(fn, inv) ==
    IF inv = <<>> THEN <<>>
    ELSE (IF Head(inv).fn = fn THEN <<Head(inv).arg>> ELSE <<>>)
         \o ArgsOf(fn, Tail(inv))

\* The updates sent by the send_notification calls that have written their
\* frame, in the order of the calls.
UpdatesSent ==
    LET written == {k \in DOMAIN call :
                       call[k].kind = "notification"
                       /\ call[k].pc \in {"drain", "returned"}}
        F[k \in 0..Len(call)] ==
            IF k = 0 THEN <<>>
            ELSE IF k \in written
                 THEN F[k - 1] \o
                      <<(CHOOSE j \in DOMAIN out : out[j].src = <<"call", k>>)>>
                 ELSE F[k - 1]
    IN  F[Len(call)]

\* C15: session/update notifications sent one after another leave the
\* sending side in the order of the sends, each once, and the receiving
\* side hands the updates it reads to sessionUpdate in the order it read
\* them, each exactly once, equal ones included and whatever requests and
\* responses pass between them.
C15_UpdatesInOrder ==
    /\ ArgsOf("sessionUpdate", invoked) = UpdatesIn(inbox)
    /\ \A m, n \in DOMAIN UpdatesSent : m < n => UpdatesSent[m] < UpdatesSent[n]
    /\ Len(UpdatesIn(out)) = Len(UpdatesSent)

\* C15 witness: the same update was read twice with a permission request
\* between the two, and both were delivered.
C15_Witness ==
    /\ Len(inbox) = 3
    /\ inbox[1] = Notification(CLIENT_METHODS.session_update, PUpdate1)
    /\ inbox[2] = Request(CLIENT_METHODS.session_request_permission, 0, PValid)
    /\ inbox[3] = inbox[1]
    /\ ArgsOf("sessionUpdate", invoked) = <<PUpdate1, PUpdate1>>
    /\ ResponsesOf(2) # {}

(***************************************************************************)
(* Claims about the write lock (checked under Spec).                       *)
(***************************************************************************)
\* The writers that are between write() and the end of drain().
InWriteSection ==
    {<<"call", k>> : k \in {c \in DOMAIN call : call[c].pc = "drain"}}
    \cup {<<"task", i>> : i \in {t \in DOMAIN task : task[t].pc = "drain"}}

\* C16: at most one writer is inside the write-and-flush section, and it is
\* the holder of the write lock; the output grows only by one whole frame at
\* its end, written by the writer that takes the lock in that step, so the
\* frames lie in the order in which their writers acquired the lock.
OneWriterInside ==
    /\ InWriteSection = IF lock_owner = NoWriter THEN {} ELSE {lock_owner}
    /\ \A j \in DOMAIN out : out[j].json = "object"
    /\ \A j1, j2 \in DOMAIN out : out[j1].src = out[j2].src => j1 = j2

C16_WritesSerialized ==
    /\ OneWriterInside
    /\ [][/\ OneWriterInside'
          /\ out' # out =>
               /\ Len(out') = Len(out) + 1
               /\ SubSeq(out', 1, Len(out)) = out
               /\ lock_owner' = out'[Len(out')].src
               /\ lock_owner' # lock_owner
          /\ lock_owner' # lock_owner /\ lock_owner' # NoWriter =>
               /\ out' # out
               /\ lock_owner = NoWriter =>
                     lock_waiters = <<>> \/ lock_waiters' # lock_waiters
               /\ lock_waiters # <<>> /\ lock_owner # NoWriter
                  /\ lock_waiters' = Tail(lock_waiters) =>
                     lock_owner' = Head(lock_waiters).w]_vars

\* C16 witness: a request, a notification and a response were written while
\* their three writers contended for the lock.
C16_Witness ==
    /\ Len(out) = 3 /\ Len(lock_waiters) = 0
    /\ out[1].src = <<"call", 1>> /\ out[2].src[1] = "task"
    /\ out[3].src = <<"call", 2>>
    /\ call[2].kind = "notification" /\ call[2].pc = "drain"
    /\ call[1].pc = "await" /\ task[out[2].src[2]].pc = "done"

(***************************************************************************)
(* Claims about handlers that call back (checked under SpecNested).        *)
(***************************************************************************)
\* The response to line i is written only after the handler's own request
\* was answered and its call has ended.
OuterAfterNested ==
    \A i \in DOMAIN task :
        FramesOf(i) # {} =>
            /\ NestedCallOf(i) # 0
            /\ call[NestedCallOf(i)].pc \in {"returned", "raised"}
            /\ call[NestedCallOf(i)].id \notin DOMAIN pending

\* C17: a handler that sends a request of its own while it serves a
\* request gets the reply while the outer request is in flight, the outer
\* response is written only after that, and every outer request is
\* answered in the end: the exchange does not deadlock.
C17_NestedRequests ==
    /\ []OuterAfterNested
    /\ \A i \in 1..MaxNestedLines :
          (i \in DOMAIN task) ~> (ResponsesOf(i) # {})

\* C17 witness: the reply to the request of the first handler has been
\* delivered to it while both outer requests are still in flight.
C17_Witness ==
    /\ DOMAIN task = {1, 2}
    /\ task[1].pc = "impl" /\ task[2].pc = "impl"
    /\ NestedCallOf(1) # 0
    /\ call[NestedCallOf(1)].pc = "returned"
    /\ call[NestedCallOf(1)].fut.val = "granted"
    /\ FramesOf(1) = {} /\ FramesOf(2) = {}

(***************************************************************************)
(* Claims about cancellation of a turn (checked under SpecInbound).        *)
(***************************************************************************)
PromptRunning(i) ==
    /\ inbox[i].method = AGENT_METHODS.session_prompt
    /\ task[i].pc = "impl"

\* C18: a session/cancel notification read while the handler of a
\* session/prompt request is running is handed to the agent's cancel
\* method, with the params of the notification, in the step that reads it:
\* the prompt handler is still running then and nothing waits for it.
C18_CancelDuringPrompt ==
    [][\A i \in DOMAIN task :
          /\ PromptRunning(i)
          /\ Reads(Notification(AGENT_METHODS.session_cancel, PValid))
          => /\ invoked' =
                   Append(invoked,
                          Invocation(Call("cancel", PValid, "raw"), Len(inbox) + 1))
             /\ PromptRunning(i)'
             /\ ResponsesOf(i)' = {}
             /\ recv' = "notification"]_vars

\* C18 witness: cancel was called, and has returned, while the prompt that
\* was received before it is still running.
C18_Witness ==
    /\ Len(inbox) = 2
    /\ inbox[1] = Request(AGENT_METHODS.session_prompt, 0, PValid)
    /\ inbox[2] = Notification(AGENT_METHODS.session_cancel, PValid)
    /\ Len(invoked) = 2
    /\ invoked[1].fn = "prompt" /\ invoked[2].fn = "cancel"
    /\ task[1].pc = "impl" /\ recv = "reading"

(***************************************************************************)
(* Claims about optional methods and empty results.                        *)
(***************************************************************************)
OptionalAgentMethods ==
    {AGENT_METHODS.session_load, AGENT_METHODS.session_set_mode,
     AGENT_METHODS.session_set_model, AGENT_METHODS.authenticate}

\* C19 (checked under SpecDispatch): a request for an optional agent method
\* whose handler the agent implementation does not define is answered with
\* a success response whose result is the empty object.
C19_AbsentOptionalIsEmpty ==
    \A i \in DOMAIN task :
        /\ side = "agent"
        /\ inbox[i].method \in OptionalAgentMethods
        /\ ~HandlerDefined(inbox[i].method)
        => \A f \in FramesOf(i) :
              HasResult(f) /\ ~HasError(f) /\ f.result = EmptyObj

\* C20 (checked under SpecOptional): when the handler of a method whose
\* response may carry no data returns None, the response frame carries the
\* result {} and never null.
C20_NoneIsEmptyObject ==
    [][\A i \in DOMAIN task :
          /\ KnownMethod(inbox[i].method)
          /\ inbox[i].method \in NoDataMethods
          /\ TaskImplFinish(i, Returns(Null))
          => \A f \in FramesOf(i)' :
                HasResult(f) /\ ~HasError(f) /\ f.result = EmptyObj]_vars

(***************************************************************************)
(* Claims about extension methods (checked under SpecExt).                 *)
(***************************************************************************)
\* The frames of the outbound call k, written or waiting for the write lock.
CallFrames(k) ==
    {out[j] : j \in {x \in DOMAIN out : out[x].src = <<"call", k>>}}
    \cup {lock_waiters[n].frame :
            n \in {m \in DOMAIN lock_waiters : lock_waiters[m].w = <<"call", k>>}}

\* What the hook is to be given for the params of the frame.
ExtArg(params) == IF params = Null THEN EmptyObj ELSE params

ExtInvocation(fn, name, params, i) ==
    [fn |-> fn, name |-> name, arg |-> ExtArg(params), src |-> i]

\* The facade call writes the wire method "_" + name with its params, and
\* the peer that reads the frame calls its hook with name and params.
ExtSent(fn, name, params) ==
    \A k \in {Len(call) + 1} :
        /\ CallFrames(k)' # {}
        /\ \A f \in CallFrames(k)' :
              /\ f.method = <<"_">> \o name
              /\ f.params = params
              /\ handler(PeerSide, PeerHas, f.method, GetParams(f),
                         fn = "extNotification")
                     = CallExt(fn, name, ExtArg(params),
                               IF fn = "extMethod" THEN "raw" ELSE "none")

\* C21: extMethod(name, params) and extNotification(name, params) are
\* written with wire method "_" + name; the side that reads such a frame
\* calls the extMethod / extNotification hook of its implementation with
\* exactly name and with params, or {} when params is null; and what the
\* extMethod hook returns is the result of the response and the value the
\* calling extMethod returns.
C21_ExtensionRoundTrip ==
    /\ RaisesWhatFutureHolds
    /\ [][/\ RaisesWhatFutureHolds'
          /\ \A name \in ExtNames : \A params \in ExtParams :
                /\ extMethod(name, params) => ExtSent("extMethod", name, params)
                /\ extNotification(name, params) =>
                       ExtSent("extNotification", name, params)
                /\ /\ "extNotification" \in has
                   /\ Reads(Notification(ExtWireName(name), params))
                   => invoked' =
                         Append(invoked,
                                ExtInvocation("extNotification", name, params,
                                              Len(inbox) + 1))
                /\ \A i \in DOMAIN task :
                      /\ "extMethod" \in has
                      /\ inbox[i] = Request(ExtWireName(name), 0, params)
                      /\ TaskStart(i)
                      => invoked' =
                            Append(invoked,
                                   ExtInvocation("extMethod", name, params, i))
          /\ \A i \in DOMAIN task : \A v \in ExtReturns :
                TaskImplFinish(i, Returns(v)) =>
                    FramesOf(i)' =
                        {[Result(inbox[i].id, v) EXCEPT !.src = <<"task", i>>]}
          /\ \A j \in DOMAIN out : \A v \in ExtReturns : \A k \in RequestCalls :
                /\ Reads(PeerExtResponse(j, v))
                /\ out[j].src = <<"call", k>>
                /\ call[k].fut.st = "pending"
                => call'[k].fut =
                       [st |-> "result", val |-> v, err |-> NoException]]_vars

\* C21 witness: extMethod("_x", None) was written as "__x", the peer's hook
\* returned "r", and the call has returned "r".
C21_Witness ==
    /\ Len(call) = 1 /\ Len(out) = 1
    /\ out[1].method = <<"_", "_", "x">> /\ out[1].params = Null
    /\ call[1].pc = "returned" /\ call[1].fut.val = "r"

\* Every extension request that the implementation has no extMethod hook
\* for is answered with method_not_found for the name as received.
ExtRequestsRefused ==
    \A i \in DOMAIN task :
        StartsWithUnderscore(inbox[i].method) /\ "extMethod" \notin has =>
            /\ AnsweredWithError(i, 0 - 32601, "method")
            /\ \A j \in ResponsesOf(i) :
                  out[j].error.data = Data("method", inbox[i].method)

\* C22: an inbound request whose method begins with an underscore, read by
\* a side whose implementation has no extMethod hook, is answered with
\* error -32601; an inbound notification whose method begins with an
\* underscore, read by a side whose implementation has no extNotification
\* hook, is dropped: nothing is invoked, no frame is written, nothing is
\* raised and the receive loop reads on.
C22_ExtensionWithoutHook ==
    /\ ExtRequestsRefused
    /\ [][/\ ExtRequestsRefused'
          /\ \A line \in LinesExt :
                /\ Reads(line)
                /\ line.id = NoId
                /\ "extNotification" \notin has
                => NothingButInbox /\ recv' = "reading"]_vars

\* C22 witness: without the hooks, an extension notification was dropped
\* and the extension request read after it was answered with an error.
C22_Witness ==
    /\ ExtHooks \cap has = {}
    /\ Len(inbox) = 2 /\ Len(out) = 1 /\ invoked = <<>>
    /\ inbox[1] = Notification(<<"_", "ext">>, PValid)
    /\ inbox[2] = Request(<<"_", "ext">>, 0, PValid)
    /\ out[1].src = <<"task", 2>> /\ out[1].error.code = 0 - 32601

(***************************************************************************)
(* Claims about shutdown (checked under SpecClose).                        *)
(***************************************************************************)
\* The first call of close() has returned.
ClosedOnce == closing.st = "done" \/ closing.calls >= 2

AllTasksEnded == \A i \in DOMAIN task : TaskFinished(i)

\* C23 as stated: when close() has returned, the receive task has finished,
\* every handler task has finished or been cancelled, and the in-flight set
\* is empty.
C23_CloseLeavesNothing ==
    closing.st = "done" => RecvDone /\ AllTasksEnded /\ inflight = {}

\* When close() has returned, the receive task has finished and every
\* handler task has finished or been cancelled; the in-flight set holds
\* none but tasks that have ended.
CloseLeavesEnded ==
    ClosedOnce => RecvDone /\ AllTasksEnded

\* C23, amended: close() terminates; when it returns the receive task has
\* finished and every handler task has finished or been cancelled; the
\* in-flight set holds at most tasks that had ended before close() looked
\* at them and whose done callbacks have not run yet, and is empty once
\* these have run; afterwards no line is read, no frame is dispatched and
\* no handler is started; and a second call of close() changes nothing.
C23_CloseQuiesces ==
    /\ CloseLeavesEnded
    /\ [][/\ CloseLeavesEnded'
          /\ ClosedOnce =>
                /\ UNCHANGED <<inbox, recv, task, invoked>>
                /\ inflight' \subseteq inflight
          /\ ClosedOnce /\ closing' # closing =>
                UNCHANGED <<next_request_id, pending, inflight, lock_owner,
                            lock_waiters, out, inbox, recv, task, call,
                            invoked>>]_vars
    /\ (closing.st \in {"recv", "tasks"}) ~> (closing.st = "done")
    /\ (closing.st = "done") ~> (inflight = {})

\* C23 witness: close() was called while one handler was running and
\* another request had been answered; the running one was cancelled, both
\* done callbacks have run, and a second call of close() has returned.
C23_Witness ==
    /\ closing.st = "done" /\ closing.calls = 2
    /\ inflight = {} /\ recv = "cancelled"
    /\ \E i, j \in DOMAIN task :
          task[i].pc = "cancelled" /\ task[j].pc = "done"

\* C24: close() leaves the pending table and next_request_id as they are:
\* no step of close() settles the future of an outstanding send_request,
\* with a result or with an error, or removes its entry.
C24_CloseKeepsPending ==
    [][closing' # closing =>
          /\ UNCHANGED <<pending, next_request_id>>
          /\ \A k \in DOMAIN call : call'[k].fut = call[k].fut]_vars

\* C24 witness: close() has returned, twice, and the call that was
\* outstanding when it was called is still waiting for its response.
C24_Witness ==
    /\ closing.st = "done" /\ closing.calls = 2
    /\ Len(call) = 1 /\ call[1].pc = "await" /\ call[1].fut.st = "pending"
    /\ DOMAIN pending = {0} /\ next_request_id = 1
    /\ \E i \in DOMAIN task : task[i].pc = "cancelled"

(***************************************************************************)
(* Claims about responses nobody waits for (checked under SpecInbound).    *)
(***************************************************************************)
\* The line is handled as a response.
IsHandledAsResponse(line) ==
    line.json = "object" /\ GetMethod(line.method) = MNull /\ line.id # NoId

\* C25: a response whose id is not in the pending table, because no request
\* with that id was issued or because the request was answered before, is
\* dropped: the pending table and every call stay as they are, no frame is
\* written, nothing is raised, and the receive loop reads the next line.
C25_UnknownResponseDropped ==
    [][\A line \in LinesInbound :
          /\ Reads(line)
          /\ IsHandledAsResponse(line)
          /\ line.id \notin DOMAIN pending
          => NothingButInbox /\ recv' = "reading"]_vars

\* C25 witness: a call was answered with a result; the error response with
\* the same id that came after it was dropped and the loop reads on.
C25_Witness ==
    /\ Len(call) = 1 /\ Len(inbox) = 2
    /\ inbox[1] = Result(0, "a")
    /\ inbox[2] = Error(0, to_error_obj(AuthRequired))
    /\ call[1].pc = "returned" /\ call[1].fut.val = "a"
    /\ pending = <<>> /\ recv = "reading"

(***************************************************************************)
(* Claims about the per-line byte limit (checked under SpecLimit).         *)
(***************************************************************************)
\* A line longer than the limit is the last thing the receive loop took
\* from the stream: the loop has ended, the line was not dispatched, and no
\* line was read after it.
OverlongLineIsLast ==
    \A i \in DOMAIN inbox :
        inbox[i].size > StdioLimit =>
            /\ recv = "crashed"
            /\ i = Len(inbox)
            /\ i \notin DOMAIN task
            /\ InvokedFor(i) = {}

\* C26: a line as long as the limit is read and dispatched; a line one byte
\* longer makes the read fail: the line is not dispatched, the failure ends
\* the receive loop, and no line that follows it is dispatched.
C26_LineLimit ==
    /\ OverlongLineIsLast
    /\ [][/\ OverlongLineIsLast'
          /\ \A line \in LinesLimit : \A size \in LineSizes :
                Reads(Sized(line, size)) =>
                    IF size <= StdioLimit
                    THEN recv' # "crashed" /\ ClassifiedByRule(Sized(line, size))
                    ELSE /\ recv' = "crashed"
                         /\ UNCHANGED <<next_request_id, pending, inflight,
                                        lock_owner, lock_waiters, out, task,
                                        call, closing, invoked>>
          /\ recv = "crashed" =>
                UNCHANGED <<inbox, recv>> /\ DOMAIN task' = DOMAIN task]_vars

\* C26 witness: a request as long as the limit was dispatched and answered;
\* the line after it, one byte longer, ended the receive loop.
C26_Witness ==
    /\ Len(inbox) = 2 /\ Len(call) = 0
    /\ inbox[1] = Sized(Request(AGENT_METHODS.session_prompt, 0, PValid), StdioLimit)
    /\ inbox[2].size = StdioLimit + 1
    /\ ResponsesOf(1) # {} /\ DOMAIN task = {1}
    /\ recv = "crashed"

NotificationHandlerStarts ==
    \E n \in {Len(invoked) + 1} :
        /\ Len(invoked') = n
        /\ inbox'[invoked'[n].src].id = NoId

\* The step reads, classifies or dispatches nothing: no line is taken from
\* the stream, no task is scheduled for a request, no notification is
\* delivered and no response settles a call or leaves the pending table.
NothingDispatched ==
    /\ inbox' = inbox
    /\ DOMAIN task' = DOMAIN task
    /\ inflight' \subseteq inflight
    /\ ~NotificationHandlerStarts
    /\ DOMAIN pending \subseteq DOMAIN pending'
    /\ \A k \in DOMAIN call :
          call'[k].fut.st \in {"result", "error"} => call'[k].fut = call[k].fut

\* C28: notifications are handled inline and in receive order.  The step
\* that calls the handler of an inbound notification leaves the receiver
\* waiting for it; while it waits the receiver reads, classifies and
\* dispatches no later frame (request, notification or response), and it
\* goes back to reading only by the handler's return or raise.
C28_NotificationsInline ==
    [][/\ NotificationHandlerStarts => recv' = "notification"
       /\ recv = "notification" =>
             /\ NothingDispatched
             /\ recv' \in {"notification", "reading", "cancelled"}
             /\ recv' = "reading" => NotificationDone]_vars

\* The handler of a notification is running while the handler of an earlier
\* request is still running and a call of this side awaits its response.
C28_Witness ==
    /\ recv = "notification"
    /\ Len(inbox) = 2
    /\ inbox[2].id = NoId
    /\ \E n \in DOMAIN invoked : invoked[n].src = 2
    /\ 1 \in DOMAIN task /\ task[1].pc = "impl"
    /\ \E k \in DOMAIN call : call[k].pc = "await" /\ call[k].fut.st = "pending"

\* The event loop runs the handler task of every request but line i's, whose
\* handler may stay blocked for ever.
FairExcept(i) ==
    \A j \in (1..MaxLiveFrames) \ {i} :
        WF_vars(TaskStartOf(j)) /\ WF_vars(TaskImplFinishOf(j))

\* C29: inbound requests are served independently.  Scheduling a request
\* leaves the receiver reading, and a request received after one whose
\* handler never has to end is still started, handled and answered (unless
\* close() is called): the later response can be written before the
\* earlier one.
C29_ServedIndependently ==
    /\ [][DOMAIN task' # DOMAIN task => recv = "reading" /\ recv' = "reading"]_vars
    /\ \A i \in 1..MaxLiveFrames :
          FairExcept(i) =>
              \A j \in (i + 1)..MaxLiveFrames :
                  (i \in DOMAIN task /\ j \in DOMAIN task)
                      ~> (ResponsesOf(j) # {} \/ closing.st # "no")

\* The handler of the first request is still running and the response to
\* the second request has been written.
C29_Witness ==
    /\ closing.st = "no"
    /\ {1, 2} \subseteq DOMAIN task
    /\ task[1].pc = "impl"
    /\ ResponsesOf(1) = {}
    /\ ResponsesOf(2) # {}
    /\ task[2].pc = "done"

(***************************************************************************)
(* Claims about cancelled callers (checked under SpecInbound).             *)
(***************************************************************************)
\* The caller of the request with this id was cancelled and the entry of
\* the request is still in the pending table.
CallerCancelled(id) ==
    id \in DOMAIN pending /\ call[pending[id]].pc = "cancelled"

\* C30: when the caller of an outstanding send_request was cancelled and a
\* response with the id of its request arrives afterwards, the response is
\* discarded without error: no caller is resumed, the receive loop goes on
\* to read the next line, and no entry for the id remains in the pending
\* table.
C30_LateResponseDiscarded ==
    [][\A line \in LinesInbound :
          /\ Reads(line)
          /\ IsHandledAsResponse(line)
          /\ CallerCancelled(line.id)
          => /\ \A k \in DOMAIN call : call'[k].pc = call[k].pc
             /\ recv' = "reading"
             /\ line.id \notin DOMAIN pending']_vars

(***************************************************************************)
(* Claims about the end of the receive loop (checked under SpecExit).      *)
(***************************************************************************)
\* The step ends the receive loop at readline(): the stream reached EOF or
\* the read failed.  No line is consumed.
LoopExitsAtRead ==
    recv = "reading" /\ recv' \in {"eof", "crashed"} /\ inbox' = inbox

Outstanding == {k \in DOMAIN call : \E id \in DOMAIN pending : pending[id] = k}

\* C31 as stated: when the receive loop exits because the stream reached
\* EOF or broke, every request still in the pending table is settled with
\* an error.
C31_SettledOnExit ==
    [][LoopExitsAtRead =>
          \A k \in Outstanding : call'[k].fut.st = "error"]_vars

\* C31 as the code has it: the exit of the receive loop settles nothing.
\* The pending table and every call stay as they are, and once the loop has
\* ended no entry leaves the table and no call is given a result or an
\* error any more.
C31_ExitSettlesNothing ==
    [][/\ LoopExitsAtRead => pending' = pending /\ call' = call
       /\ RecvDone =>
             /\ DOMAIN pending \subseteq DOMAIN pending'
             /\ \A k \in DOMAIN call :
                   call'[k].fut.st \in {"result", "error"}
                       => call'[k].fut = call[k].fut]_vars

\* The stream ended while a caller was awaiting the response to its request.
C31_Witness ==
    /\ recv = "eof"
    /\ \E k \in Outstanding : call[k].pc = "await" /\ call[k].fut.st = "pending"

(***************************************************************************)
(* Claims about write failures (checked under SpecWrite).                  *)
(***************************************************************************)
\* The lock passes from writer w to the first writer that waits, if any.
LockReleasedBy(w) ==
    /\ lock_owner' # w
    /\ lock_owner' = IF lock_waiters = <<>> THEN NoWriter ELSE Head(lock_waiters).w
    /\ lock_waiters' = IF lock_waiters = <<>> THEN <<>> ELSE Tail(lock_waiters)

\* Writer w left _send_obj without an exception: send_notification has
\* returned, send_request awaits its future, the handler task has ended.
LeftNormally(w) ==
    IF w[1] = "task" THEN task'[w[2]].pc = "done"
    ELSE IF call[w[2]].kind = "request"
         THEN call'[w[2]].pc = "await" /\ call'[w[2]].fut = call[w[2]].fut
         ELSE call'[w[2]].pc = "returned"

\* C32: a flush that fails because the stream is closed or broken is
\* swallowed.  The writer leaves _send_obj as after a flush that worked
\* (send_notification returns, send_request and the response writer raise
\* nothing), the write lock goes to the next writer, and the pending table,
\* the in-flight set and the receive task are unchanged.
C32_FlushFailureSwallowed ==
    [][\A exc \in SuppressedByDrain : \A w \in {lock_owner} :
          DrainFails(exc) =>
              /\ LeftNormally(w)
              /\ LockReleasedBy(w)
              /\ UNCHANGED <<pending, inflight, recv, inbox>>]_vars

\* A notification, a request and a response were each written with a flush
\* that failed; the notification call returned, the request still awaits
\* its response and the writer after them got the lock.
C32_Witness ==
    /\ \E k \in DOMAIN call :
          /\ <<"call", k>> \in flush_failed
          /\ call[k].kind = "notification" /\ call[k].pc = "returned"
    /\ \E k \in DOMAIN call :
          /\ <<"call", k>> \in flush_failed
          /\ call[k].kind = "request" /\ call[k].pc = "await"
          /\ call[k].id \in DOMAIN pending
    /\ \E i \in DOMAIN task : <<"task", i>> \in flush_failed /\ task[i].pc = "done"
    /\ lock_owner = NoWriter
    /\ recv = "reading"

(***************************************************************************)
(* Claims about lines that are no frame (checked under SpecInbound).       *)
(***************************************************************************)
\* C33: an inbound line that is valid JSON but no JSON object (an array, a
\* number, a string, a boolean or null) is ignored like a frame that fits
\* no category: no handler is invoked, no frame is written, nothing else
\* changes and the receive loop goes on to read the next line.
C33_NonObjectIgnored ==
    [][\A line \in LinesInbound :
          Reads(line) /\ line.json = "nonobject"
              => NothingButInbox /\ recv' = "reading"]_vars

(***************************************************************************)
(* Claims about session/cancel (checked under SpecInbound).                *)
(***************************************************************************)
CancelLine == Notification(AGENT_METHODS.session_cancel, PValid)

\* The handler tasks there are stay as they are and in the in-flight set.
TasksUntouched ==
    /\ \A i \in DOMAIN task : task'[i] = task[i]
    /\ inflight \subseteq inflight'

\* The frame that answers line i is written or waits for the write lock.
ResponseUnderWay(i) ==
    \/ \E j \in DOMAIN out' : out'[j].src = <<"task", i>>
    \/ \E n \in DOMAIN lock_waiters' : lock_waiters'[n].w = <<"task", i>>

\* C34: the connection cancels handler tasks only in close().  A task
\* becomes cancelled only by the step of close() that cancels the in-flight
\* set; reading a frame, session/cancel included, leaves every handler task
\* as it is and in the in-flight set and writes nothing; the only effect of
\* session/cancel is one more call of the implementation; and a handler
\* that ends after a session/cancel was received still gets its response
\* written.
C34_OnlyCloseCancels ==
    [][/\ \A i \in DOMAIN task :
             task[i].pc # "cancelled" /\ task'[i].pc = "cancelled"
                 => closing.st = "recv" /\ closing'.st = "tasks"
       /\ \A line \in LinesInbound :
             Reads(line) => TasksUntouched /\ out' = out
       /\ Reads(CancelLine) =>
             /\ Len(invoked') = Len(invoked) + 1
             /\ UNCHANGED <<pending, call, task, inflight, out, lock_owner,
                            lock_waiters, closing, next_request_id>>
       /\ \A i \in DOMAIN task : \A o \in InboundOutcomes :
             /\ TaskImplFinish(i, o)
             /\ \E n \in DOMAIN inbox : n > i /\ inbox[n] = CancelLine
             => ResponseUnderWay(i)]_vars

\* A session/prompt was in its handler when session/cancel was read and
\* delivered; the prompt's handler then returned and its result was written.
C34_Witness ==
    /\ closing.st = "no"
    /\ Len(inbox) >= 2
    /\ inbox[1] = Request(AGENT_METHODS.session_prompt, 0, PValid)
    /\ inbox[2] = CancelLine
    /\ \E m, n \in DOMAIN invoked :
          m < n /\ invoked[m].src = 1 /\ invoked[n].src = 2
    /\ task[1].pc = "done"
    /\ \E j \in ResponsesOf(1) : HasResult(out[j])

(***************************************************************************)
(* Claims about the optional terminal methods (checked under SpecDispatch).*)
(***************************************************************************)
\* What a terminal method without handler is answered with.
TerminalResult ==
    (CLIENT_METHODS.terminal_create :> Null)
    @@ (CLIENT_METHODS.terminal_output :> Null)
    @@ (CLIENT_METHODS.terminal_wait_for_exit :> Null)
    @@ (CLIENT_METHODS.terminal_release :> EmptyObj)
    @@ (CLIENT_METHODS.terminal_kill :> EmptyObj)

\* C35: a request for an optional client terminal method whose handler the
\* client implementation does not define is answered with a success
\* response and never with an error, whatever its params: the result is
\* null for terminal/create, terminal/output and terminal/wait_for_exit and
\* {} for terminal/release and terminal/kill.  Nothing of the
\* implementation is called.
C35_AbsentTerminalHandler ==
    \A i \in DOMAIN task :
        /\ side = "client"
        /\ inbox[i].method \in DOMAIN TerminalResult
        /\ ~HandlerDefined(inbox[i].method)
        => /\ InvokedFor(i) = {}
           /\ task[i].pc # "impl"
           /\ task[i].pc \in {"drain", "done"} => ResponsesOf(i) # {}
           /\ \A f \in FramesOf(i) :
                 /\ HasResult(f) /\ ~HasError(f)
                 /\ f.result = TerminalResult[inbox[i].method]

\* terminal/create with invalid params and terminal/kill without params,
\* sent to a client without terminal handlers, have both been answered.
C35_Witness ==
    /\ side = "client" /\ has = ClientRequiredAttrs
    /\ Len(inbox) = 2
    /\ inbox[1] = Request(CLIENT_METHODS.terminal_create, 1, PInvalid)
    /\ inbox[2] = Request(CLIENT_METHODS.terminal_kill, 1, Null)
    /\ task[1].pc = "done" /\ task[2].pc = "done"
    /\ \E j \in ResponsesOf(1) : out[j].result = Null
    /\ \E j \in ResponsesOf(2) : out[j].result = EmptyObj

(***************************************************************************)
(* Claims about handlers that call back (checked under SpecNotify).        *)
(***************************************************************************)
IsNotificationLine(i) ==
    /\ i \in DOMAIN inbox
    /\ inbox[i].json = "object"
    /\ GetMethod(inbox[i].method) # MNull
    /\ inbox[i].id = NoId

\* The handler of the notification of line i has sent a request.
NotificationCalled(i) == IsNotificationLine(i) /\ NestedCallOf(i) # 0

\* The request that the handler of line i sent is unanswered: its future is
\* pending and its entry is in the pending table; the receive loop awaits
\* the handler and line i is the last line it has read.
NotificationBlocked(i) ==
    /\ recv = "notification"
    /\ Len(inbox) = i
    /\ call[NestedCallOf(i)].pc \in {"lock", "drain", "await"}
    /\ call[NestedCallOf(i)].fut.st = "pending"
    /\ call[NestedCallOf(i)].id \in DOMAIN pending
    /\ pending[call[NestedCallOf(i)].id] = NestedCallOf(i)

\* C36: a notification handler that calls send_request on the same
\* connection and awaits the reply never completes.  From the call on, in
\* every state, the receive loop awaits the handler, reads and dispatches
\* no further line, and the call stays unanswered with its entry in the
\* pending table.
C36_NotificationCallDeadlocks ==
    [][\A i \in 1..MaxNotifyFrames :
          /\ NotificationCalled(i)' => NotificationBlocked(i)'
          /\ NotificationCalled(i) =>
                /\ NotificationCalled(i)'
                /\ inbox' = inbox
                /\ ~NotificationHandlerStarts
                /\ DOMAIN task' = DOMAIN task]_vars

\* A request handler sent a request, got the reply and answered; the
\* handler of the notification that came next sent a request too, the
\* frame is written and the caller awaits the reply.
C36_Witness ==
    /\ \E i \in DOMAIN task :
          /\ task[i].pc = "done"
          /\ NestedCallOf(i) # 0
          /\ call[NestedCallOf(i)].pc = "returned"
    /\ \E i \in DOMAIN inbox :
          /\ NotificationCalled(i)
          /\ call[NestedCallOf(i)].pc = "await"
          /\ lock_owner = NoWriter

(***************************************************************************)
(* Claims about the end of a turn (checked under SpecUpdates).             *)
(***************************************************************************)
\* The call has returned to its caller, with the result or the error.
CallEnded(k) == call[k].kind = "request" /\ call[k].pc \in {"returned", "raised"}

\* The response lines read for call k.
ResponseLinesOf(k) ==
    {r \in DOMAIN inbox : IsHandledAsResponse(inbox[r]) /\ inbox[r].id = call[k].id}

\* The session/update lines read before a response line of call k.
UpdatesBefore(k) ==
    {n \in DOMAIN inbox :
        IsUpdate(inbox[n]) /\ \E r \in ResponseLinesOf(k) : n < r}

\* The handler of line n was called once and the receive loop has left it.
HandledAndFinished(n) ==
    /\ Cardinality(InvokedFor(n)) = 1
    /\ ~(recv = "notification" /\ Len(inbox) = n)

\* C37: when a send_request call returns at the caller, every notification
\* that was read before the response to it has been passed to the handler
\* and the handler has finished; and after the call has returned no
\* notification that came before the response is handled any more.
C37_UpdatesBeforeReturn ==
    [][/\ \A k \in DOMAIN call' :
             CallEnded(k)' =>
                 /\ ResponseLinesOf(k)' # {}
                 /\ \A n \in UpdatesBefore(k)' : HandledAndFinished(n)'
       /\ \A k \in DOMAIN call :
             CallEnded(k) =>
                 \A n \in UpdatesBefore(k) : InvokedFor(n)' = InvokedFor(n)]_vars

\* Two updates and then the response were read; both updates were handled
\* and the call has returned.
C37_Witness ==
    /\ Len(inbox) = 3 /\ Len(call) = 1
    /\ inbox[1] = Notification(CLIENT_METHODS.session_update, PUpdate1)
    /\ inbox[2] = Notification(CLIENT_METHODS.session_update, PUpdate2)
    /\ inbox[3] = Result(0, "a")
    /\ call[1].pc = "returned" /\ call[1].fut.val = "a"
    /\ ArgsOf("sessionUpdate", invoked) = <<PUpdate1, PUpdate2>>
    /\ recv = "reading"

(***************************************************************************)
(* Claims about a prompt and its cancel (checked under SpecInbound).       *)
(***************************************************************************)
IsPromptLine(i) ==
    inbox[i] = Request(AGENT_METHODS.session_prompt, inbox[i].id, PValid)

\* C38: when a session/prompt request is read before a session/cancel
\* notification for the same session, the agent's prompt handler is called
\* before the agent's cancel handler: whenever cancel has been called for
\* the later line, prompt has been called for the earlier one.
C38_PromptStartsBeforeCancel ==
    \A i, n \in DOMAIN inbox :
        /\ i < n
        /\ IsPromptLine(i)
        /\ inbox[n] = CancelLine
        /\ InvokedFor(n) # {}
        => \E p \in InvokedFor(i) : \A c \in InvokedFor(n) : p < c

(***************************************************************************)
(* Claims about the in-flight set (checked under SpecInbound).             *)
(***************************************************************************)
Unfinished == {i \in DOMAIN task : ~TaskFinished(i)}

IsRequestLine(line) ==
    line.json = "object" /\ GetMethod(line.method) # MNull /\ line.id # NoId

\* C39 as stated: in every reachable state the in-flight set is exactly the
\* set of the handler tasks that were dispatched and have not finished.
C39_InflightIsUnfinished == inflight = Unfinished

\* The in-flight set holds every unfinished handler task and otherwise only
\* handler tasks that have finished and wait for their done callback.
InflightCoversUnfinished ==
    /\ Unfinished \subseteq inflight
    /\ inflight \subseteq DOMAIN task

\* C39 as the code has it: the in-flight set holds every dispatched handler
\* task that has not finished, and besides these only finished tasks whose
\* done callback has not run yet.  A task is added in the step that
\* dispatches its request, and only there; it is removed only after it has
\* finished; lines that are no request add nothing.
C39_InflightTracking ==
    [][/\ InflightCoversUnfinished'
       /\ \A line \in LinesInbound :
             Reads(line) =>
                 inflight' = IF IsRequestLine(line)
                             THEN inflight \cup {Len(inbox) + 1}
                             ELSE inflight
       /\ \A i \in inflight' \ inflight : i \notin DOMAIN task /\ Reads(inbox'[i])
       /\ \A i \in inflight \ inflight' : TaskFinished(i)]_vars

\* A request was answered and its task waits in the set for the done
\* callback, a second request is in its handler, and the notification read
\* after them added nothing.
C39_Witness ==
    /\ Len(inbox) = 3
    /\ IsRequestLine(inbox[1]) /\ IsRequestLine(inbox[2])
    /\ inbox[3] = CancelLine
    /\ TaskFinished(1) /\ task[2].pc = "impl"
    /\ inflight = {1, 2}

(***************************************************************************)
(* Claims about the shapes of a response (checked under SpecResponses).    *)
(***************************************************************************)
\* What the caller is to get for a response frame: the result if there is
\* a result key; else, if there is an error key, an error with the members
\* of the error object, -32603, "Error" and null standing in for the
\* missing ones; else None.
ExpectedOfResponse(line) ==
    IF line.result # Absent
    THEN [st |-> "result", val |-> line.result, err |-> NoException]
    ELSE IF line.error.k = "absent"
    THEN [st |-> "result", val |-> Null, err |-> NoException]
    ELSE [st |-> "error", val |-> Null,
          err |-> [code |-> IF line.error.code = NoCode
                            THEN 0 - 32603 ELSE line.error.code,
                   message |-> IF line.error.message = Absent
                               THEN "Error" ELSE line.error.message,
                   data |-> IF line.error.data = AbsentData
                            THEN NullData ELSE line.error.data]]

\* C40: a response whose id is pending settles the caller's future with the
\* value of result when the frame has a result key, an error key beside it
\* or not; else with a RequestError built from the error object, with the
\* defaults -32603, "Error" and null, when it has an error key; else with
\* None.  In each case the entry leaves the pending table, and the caller
\* returns the value or raises the error it was given.
C40_ResponseShapes ==
    [][/\ \A line \in LinesResponses : \A id \in {line.id} :
             /\ Reads(line)
             /\ id \in DOMAIN pending
             /\ call[pending[id]].fut.st = "pending"
             => /\ call'[pending[id]].fut = ExpectedOfResponse(line)
                /\ id \notin DOMAIN pending'
                /\ recv' = "reading"
       /\ \A k \in DOMAIN call :
             call[k].pc = "await" /\ call'[k].pc # "await" =>
                 \/ call'[k].pc = "returned" /\ call[k].fut.st = "result"
                 \/ call'[k].pc = "raised" /\ call[k].fut.st = "error"
                 \/ call'[k].pc = "cancelled"]_vars

\* A frame with a result and an error gave the first caller the result; a
\* frame with an empty error object made the second caller raise the
\* error with the defaults.
C40_Witness ==
    /\ Len(call) = 2 /\ Len(inbox) = 2
    /\ HasResult(inbox[1]) /\ HasError(inbox[1])
    /\ call[1].pc = "returned" /\ call[1].fut.val = "a"
    /\ call[2].pc = "raised"
    /\ call[2].fut.err = RequestError(0 - 32603, "Error", NullData)
    /\ pending = <<>>
====
